---- MODULE Spec2Model ----
(***************************************************************************)
(* Model of the smalltonto front end: MyLexer (PLY lexer), MyParser (PLY   *)
(* LALR parser with p_error), SymbolTable, ParserSemantic (six pattern     *)
(* detectors) and the pipeline driver ParserAPI.parse_content.             *)
(*                                                                         *)
(* Encoding of Python values:                                              *)
(*   None (where a dict or list may stand)  -> the record None             *)
(*   None (where a string may stand)        -> the string "None"           *)
(*   list                                   -> List(items), a record, so   *)
(*                                             that a list and None can be *)
(*                                             compared                    *)
(*   insertion-ordered dict                 -> sequence of [key, val]      *)
(*   str                                    -> TLA+ string, or a sequence  *)
(*                                             of one-character strings    *)
(*                                             where the lexer scans it    *)
(***************************************************************************)
EXTENDS Integers, Sequences, FiniteSets, TLC

(***************************************************************************)
(* Generic helpers                                                         *)
(***************************************************************************)
None == [node_type |-> "None"]

List(items) == [node_type |-> "list", items |-> items]

\* Python: x or []   for an optional list
OrEmpty(x) == IF x = None THEN <<>> ELSE x.items

\* Python: d.get(key) on an AST node held as a record with string fields
Get(r, f) == IF f \in DOMAIN r THEN r[f] ELSE "None"

Contains(s, x) == \E i \in 1..Len(s) : s[i] = x

ToSet(s) == {s[i] : i \in 1..Len(s)}

\* Python: name = value, followed by the statements that read name
Bind(value, Rest(_)) == Rest(value)

FoldLeft(Op(_, _), base, s) ==
    LET RECURSIVE helper(_)
        helper(i) == IF i = 0 THEN base ELSE Op(helper(i - 1), s[i])
    IN helper(Len(s))

\* Python: [f(x) for x in s]
MapSeq(Op(_), s) == [i \in 1..Len(s) |-> Op(s[i])]

\* Python: sep.join(s) for a list of strings
RECURSIVE Join(_, _)
Join(s, sep) ==
    IF Len(s) = 0 THEN ""
    ELSE IF Len(s) = 1 THEN s[1]
    ELSE s[1] \o sep \o Join(Tail(s), sep)

\* Concatenation of a sequence of sequences
RECURSIVE Flatten(_)
Flatten(ss) == IF ss = <<>> THEN <<>> ELSE Head(ss) \o Flatten(Tail(ss))

\* All sequences over S of length at most n
SeqsUpTo(S, n) == UNION {[1..k -> S] : k \in 0..n}

\* All sequences without repetition over S of length at most n
InjSeqsUpTo(S, n) ==
    {s \in SeqsUpTo(S, n) : \A i, j \in 1..Len(s) : i # j => s[i] # s[j]}

(***************************************************************************)
(* Insertion-ordered dict (Python dict): sequence of [key, val]            *)
(***************************************************************************)
DictHas(d, k) == \E i \in 1..Len(d) : d[i].key = k

DictIndex(d, k) == CHOOSE i \in 1..Len(d) : d[i].key = k

\* Python: d[k] = v   (an existing key keeps its position)
DictPut(d, k, v) ==
    IF DictHas(d, k)
    THEN [d EXCEPT ![DictIndex(d, k)] = [key |-> k, val |-> v]]
    ELSE Append(d, [key |-> k, val |-> v])

\* Python: d.get(k)
DictGet(d, k) == IF DictHas(d, k) THEN d[DictIndex(d, k)].val ELSE None

\* Python: list(d.values())
DictValues(d) == [i \in 1..Len(d) |-> d[i].val]

\* Python: list(d.keys())
DictKeys(d) == [i \in 1..Len(d) |-> d[i].key]

(***************************************************************************)
(* AST nodes, as built by the grammar actions of MyParser                  *)
(***************************************************************************)
\* '*' in a cardinality, kept apart from every NUMBER value (\d+ is >= 0)
Star == -1

Specialization(parents) == [node_type |-> "specialization", parents |-> parents]

ClassDef(stereotype, name, specialization, body) ==
    [node_type |-> "class_definition",
     class_stereotype |-> stereotype,
     class_name |-> name,
     specialization |-> specialization,
     body |-> body]

CardinalityNode(min, max) == [node_type |-> "cardinality", min |-> min, max |-> max]

MetaAttributes(attrs) == [node_type |-> "meta_attributes", attributes |-> attrs]

Attribute(name, type, cardinality, meta) ==
    [node_type |-> "attribute",
     attribute_name |-> name,
     attribute_type |-> type,
     cardinality |-> cardinality,
     meta_attributes |-> meta]

InternalRelation(stereotype, firstCard, opLeft, name, opRight, secondCard, secondEnd) ==
    [node_type |-> "internal_relation",
     relation_stereotype |-> stereotype,
     first_end |-> "None",
     first_cardinality |-> firstCard,
     operator_left |-> opLeft,
     relation_name |-> name,
     operator_right |-> opRight,
     second_cardinality |-> secondCard,
     second_end |-> secondEnd]

ExternalRelation(stereotype, firstEnd, firstCard, opLeft, name, opRight, secondCard, secondEnd) ==
    [node_type |-> "external_relation",
     relation_stereotype |-> stereotype,
     first_end |-> firstEnd,
     first_cardinality |-> firstCard,
     operator_left |-> opLeft,
     relation_name |-> name,
     operator_right |-> opRight,
     second_cardinality |-> secondCard,
     second_end |-> secondEnd]

GensetDef(name, disjoint, complete, general, categorizer, specifics) ==
    [node_type |-> "genset_definition",
     genset_name |-> name,
     disjoint |-> disjoint,
     complete |-> complete,
     general |-> general,
     categorizer |-> categorizer,
     specifics |-> specifics]

DatatypeDef(name, specialization, body) ==
    [node_type |-> "datatype_definition",
     datatype_name |-> name,
     specialization |-> specialization,
     body |-> body]

EnumDef(name, specialization, values) ==
    [node_type |-> "enum_definition",
     enum_name |-> name,
     specialization |-> specialization,
     values |-> values]

ImportStatement(name) == [node_type |-> "import_statement", module_name |-> name]

PackageDeclaration(name) == [node_type |-> "package_declaration", package_name |-> name]

TontoFile(imports, package, content) ==
    [node_type |-> "tonto_file",
     imports |-> imports,
     package |-> package,
     content |-> content]

(***************************************************************************)
(* SymbolTable                                                             *)
(***************************************************************************)
\* TokenType.data_types
data_types ==
    <<[key |-> "Number", val |-> "TYPE_NUMBER"],
      [key |-> "String", val |-> "TYPE_STRING"],
      [key |-> "Boolean", val |-> "TYPE_BOOLEAN"],
      [key |-> "Date", val |-> "TYPE_DATE"],
      [key |-> "Time", val |-> "TYPE_TIME"],
      [key |-> "Datetime", val |-> "TYPE_DATETIME"]>>

PrimitiveType(name) == [node_type |-> "primitive_type", name |-> name]

\* SymbolTable.__init__ with _init_primitives
NewSymbolTable ==
    [classes |-> <<>>,
     relations |-> <<>>,
     gensets |-> <<>>,
     datatypes |-> <<>>,
     enums |-> <<>>,
     primitives |-> [i \in 1..Len(data_types) |->
                        [key |-> data_types[i].key,
                         val |-> PrimitiveType(data_types[i].key)]]]

\* Python truthiness of a name: None and '' are false
Truthy(name) == name # "None" /\ name # ""

\* A table that keeps the first declaration under a name
add_class_first_wins(st, class_def) ==
    IF Truthy(class_def.class_name) /\ ~DictHas(st.classes, class_def.class_name)
    THEN [st EXCEPT !.classes = DictPut(@, class_def.class_name, class_def)]
    ELSE st

add_class(st, class_def) ==
    IF Truthy(class_def.class_name)
    THEN [st EXCEPT !.classes = DictPut(@, class_def.class_name, class_def)]
    ELSE st

\* relation_def.copy() with the added key source_class
TagSource(relation_def, source_class) ==
    [f \in DOMAIN relation_def \cup {"source_class"} |->
        IF f = "source_class" THEN source_class ELSE relation_def[f]]

\* A tag written to the caller's node itself, with no copy
add_relation_in_place(st, relation_def, source_class) ==
    IF relation_def.node_type = "internal_relation" /\ Truthy(source_class)
    THEN [table |-> [st EXCEPT !.relations = Append(@, TagSource(relation_def, source_class))],
          relation_def |-> TagSource(relation_def, source_class)]
    ELSE [table |-> [st EXCEPT !.relations = Append(@, relation_def)],
          relation_def |-> relation_def]

\* add_relation hands back nothing; the caller's node is a dict the callee
\* could write to, so the value here holds the table after the call and the
\* caller's node as the call leaves it.  The tag goes to the copy, the node
\* keeps its keys; the entry of an external relation is the node itself
add_relation(st, relation_def, source_class) ==
    IF relation_def.node_type = "internal_relation" /\ Truthy(source_class)
    THEN [table |-> [st EXCEPT !.relations = Append(@, TagSource(relation_def, source_class))],
          relation_def |-> relation_def]
    ELSE [table |-> [st EXCEPT !.relations = Append(@, relation_def)],
          relation_def |-> relation_def]

add_genset(st, genset_def) ==
    IF Truthy(genset_def.genset_name)
    THEN [st EXCEPT !.gensets = DictPut(@, genset_def.genset_name, genset_def)]
    ELSE st

add_datatype(st, datatype_def) ==
    IF Truthy(datatype_def.datatype_name)
    THEN [st EXCEPT !.datatypes = DictPut(@, datatype_def.datatype_name, datatype_def)]
    ELSE st

add_enum(st, enum_def) ==
    IF Truthy(enum_def.enum_name)
    THEN [st EXCEPT !.enums = DictPut(@, enum_def.enum_name, enum_def)]
    ELSE st

get_class(st, class_name) == DictGet(st.classes, class_name)

class_exists(st, class_name) == DictHas(st.classes, class_name)

\* primitives.get(n) or classes.get(n) or datatypes.get(n) or enums.get(n):
\* every stored definition is a non-empty dict, hence truthy
resolve_type(st, type_name) ==
    IF DictHas(st.primitives, type_name) THEN DictGet(st.primitives, type_name)
    ELSE IF DictHas(st.classes, type_name) THEN DictGet(st.classes, type_name)
    ELSE IF DictHas(st.datatypes, type_name) THEN DictGet(st.datatypes, type_name)
    ELSE DictGet(st.enums, type_name)

get_classes_by_stereotype(st, stereotype) ==
    SelectSeq(DictValues(st.classes), LAMBDA c : c.class_stereotype = stereotype)

\* A lookup that knows only the first parent of a class
get_children_of_first_parent(st, class_name, stereotype) ==
    SelectSeq(DictValues(st.classes),
              LAMBDA c : /\ c.specialization # None
                         /\ c.specialization.parents # <<>>
                         /\ c.specialization.parents[1] = class_name
                         /\ (stereotype = "None" \/ c.class_stereotype = stereotype))

\* stereotype = "None" stands for the default argument None
get_children_of(st, class_name, stereotype) ==
    SelectSeq(DictValues(st.classes),
              LAMBDA c : /\ c.specialization # None
                         /\ Contains(c.specialization.parents, class_name)
                         /\ (stereotype = "None" \/ c.class_stereotype = stereotype))

get_parents_of(st, class_name) ==
    LET class_def == get_class(st, class_name)
    IN IF class_def # None /\ class_def.specialization # None
       THEN class_def.specialization.parents
       ELSE <<>>

get_gensets_for_general(st, class_name) ==
    SelectSeq(DictValues(st.gensets), LAMBDA g : g.general = class_name)

get_genset_for_specific(st, class_name) ==
    SelectSeq(DictValues(st.gensets), LAMBDA g : Contains(g.specifics, class_name))

get_relations_for_class(st, class_name) ==
    SelectSeq(st.relations,
              LAMBDA rel : \/ Get(rel, "source_class") = class_name
                           \/ rel.first_end = class_name
                           \/ rel.second_end = class_name)

get_internal_relations_of(st, class_name) ==
    SelectSeq(st.relations,
              LAMBDA rel : /\ rel.node_type = "internal_relation"
                           /\ Get(rel, "source_class") = class_name)

get_relations_by_stereotype(st, stereotype) ==
    SelectSeq(st.relations, LAMBDA rel : rel.relation_stereotype = stereotype)

export(st) ==
    [classes |-> DictValues(st.classes),
     relations |-> st.relations,
     gensets |-> DictValues(st.gensets),
     datatypes |-> DictValues(st.datatypes),
     enums |-> DictValues(st.enums)]

\* The calls of add_relation for the items of one class body: the table
\* after them and the items as they leave them
PopulateBody(st, items, class_name) ==
    FoldLeft(LAMBDA acc, item :
                 IF item.node_type = "internal_relation"
                 THEN Bind(add_relation(acc.table, item, class_name), LAMBDA r :
                          [table |-> r.table, items |-> Append(acc.items, r.relation_def)])
                 ELSE [table |-> acc.table, items |-> Append(acc.items, item)],
             [table |-> st, items |-> <<>>],
             items)

\* One iteration of the loop of populate_from_ast.  acc holds the table and
\* the definitions walked so far, as the calls leave them; the class_def that
\* add_class stored is the definition itself, so that the table shows the
\* body items as the calls of add_relation leave them
PopulateDefinition(acc, definition) ==
    IF definition.node_type = "class_definition"
    THEN IF definition.body = None
         THEN [table |-> add_class(acc.table, definition),
               content |-> Append(acc.content, definition)]
         ELSE Bind(PopulateBody(add_class(acc.table, definition), definition.body.items,
                                definition.class_name), LAMBDA b :
              Bind([definition EXCEPT !.body = List(b.items)], LAMBDA left :
                  [table |-> IF get_class(b.table, definition.class_name) = definition
                             THEN [b.table EXCEPT
                                      !.classes = DictPut(@, definition.class_name, left)]
                             ELSE b.table,
                   content |-> Append(acc.content, left)]))
    ELSE IF definition.node_type = "datatype_definition"
    THEN [table |-> add_datatype(acc.table, definition),
          content |-> Append(acc.content, definition)]
    ELSE IF definition.node_type = "enum_definition"
    THEN [table |-> add_enum(acc.table, definition),
          content |-> Append(acc.content, definition)]
    ELSE IF definition.node_type = "genset_definition"
    THEN [table |-> add_genset(acc.table, definition),
          content |-> Append(acc.content, definition)]
    ELSE IF definition.node_type = "external_relation"
    THEN Bind(add_relation(acc.table, definition, "None"), LAMBDA r :
             [table |-> r.table, content |-> Append(acc.content, r.relation_def)])
    ELSE [table |-> acc.table, content |-> Append(acc.content, definition)]

\* The table after populate_from_ast(ast) and the content of ast after it
populate_from_ast(st, ast) ==
    FoldLeft(PopulateDefinition, [table |-> st, content |-> <<>>], ast.content)

(***************************************************************************)
(* ParserSemantic: shared helpers                                          *)
(***************************************************************************)
\* Iteration order of a Python set of strings.  It depends on the string
\* hashes, which are salted per interpreter process (hash randomisation):
\* seed is the order the process at hand gives to the names.
SetOrder(S, seed) == SelectSeq(seed, LAMBDA n : n \in S)

\* The accumulators of a ParserSemantic instance; raised marks an exception
\* that left analyze
NewOut ==
    [patterns |-> <<>>,
     incomplete_patterns |-> <<>>,
     errors |-> <<>>,
     warnings |-> <<>>,
     raised |-> FALSE]

\* A matching that looks for the general among the names of the gensets
_find_matching_genset_by_name(st, general, specifics) ==
    LET gs == DictValues(st.gensets)
        Hit(g) == /\ g.genset_name = general
                  /\ \/ ToSet(g.specifics) = ToSet(specifics)
                     \/ ToSet(g.specifics) \cap ToSet(specifics) # {}
    IN IF \E i \in 1..Len(gs) : Hit(gs[i])
       THEN gs[CHOOSE i \in 1..Len(gs) : Hit(gs[i]) /\ \A j \in 1..(i - 1) : ~Hit(gs[j])]
       ELSE None

_find_matching_genset(st, general, specifics) ==
    LET gs == DictValues(st.gensets)
        Hit(g) == /\ g.general = general
                  /\ \/ ToSet(g.specifics) = ToSet(specifics)
                     \/ ToSet(g.specifics) \cap ToSet(specifics) # {}
    IN IF \E i \in 1..Len(gs) : Hit(gs[i])
       THEN gs[CHOOSE i \in 1..Len(gs) : Hit(gs[i]) /\ \A j \in 1..(i - 1) : ~Hit(gs[j])]
       ELSE None

_create_pattern(pattern_type, anchor_class, anchor_stereotype, elements, constraints, violations, suggestions) ==
    [pattern_type |-> pattern_type,
     status |-> IF violations = <<>> THEN "complete" ELSE "incomplete",
     anchor_class |-> anchor_class,
     anchor_stereotype |-> anchor_stereotype,
     elements |-> elements,
     constraints |-> constraints,
     violations |-> violations,
     suggestions |-> suggestions]

\* A suggestion that leaves the keyword disjoint out
_suggest_genset_not_disjoint(general, specifics, disjoint, complete) ==
    LET genset_name == general \o "_Genset"
        keywords == IF complete THEN <<"complete">> ELSE <<>>
        prefix == IF keywords # <<>> THEN Join(keywords, " ") \o " " ELSE ""
        specifics_str == Join(specifics, ", ")
    IN prefix \o "genset " \o genset_name \o " {\n"
       \o "    general " \o general \o "\n"
       \o "    specifics " \o specifics_str \o "\n"
       \o "}"

_suggest_genset(general, specifics, disjoint, complete) ==
    LET genset_name == general \o "_Genset"
        keywords == (IF disjoint THEN <<"disjoint">> ELSE <<>>)
                    \o (IF complete THEN <<"complete">> ELSE <<>>)
        prefix == IF keywords # <<>> THEN Join(keywords, " ") \o " " ELSE ""
        specifics_str == Join(specifics, ", ")
    IN prefix \o "genset " \o genset_name \o " {\n"
       \o "    general " \o general \o "\n"
       \o "    specifics " \o specifics_str \o "\n"
       \o "}"

Suggestion(action, message, code_suggestion) ==
    [type |-> "coercion",
     action |-> action,
     message |-> message,
     code_suggestion |-> code_suggestion]

\* {**violation, "pattern_type": ..., "anchor_class": ...} and, when
\* i < len(suggestions), "suggestion": suggestions[i]  (i is 1-based here)
TopLevelWarning(violations, suggestions, i, pattern_type, anchor_class) ==
    LET v == violations[i]
        dom == DOMAIN v \cup {"pattern_type", "anchor_class"}
                 \cup (IF i <= Len(suggestions) THEN {"suggestion"} ELSE {})
    IN [f \in dom |->
          IF f = "pattern_type" THEN pattern_type
          ELSE IF f = "anchor_class" THEN anchor_class
          ELSE IF f = "suggestion" THEN suggestions[i]
          ELSE v[f]]

\* A copy of the violations that have a suggestion only
CopyViolationsWithSuggestion(violations, suggestions, pattern_type, anchor_class) ==
    [i \in 1..(IF Len(suggestions) < Len(violations) THEN Len(suggestions)
               ELSE Len(violations)) |->
        TopLevelWarning(violations, suggestions, i, pattern_type, anchor_class)]

\* for i, violation in enumerate(violations): self.warnings.append(...)
CopyViolations(violations, suggestions, pattern_type, anchor_class) ==
    [i \in 1..Len(violations) |->
        TopLevelWarning(violations, suggestions, i, pattern_type, anchor_class)]

\* A filter that takes no violation for critical
critical_violations_none(violations) == SelectSeq(violations, LAMBDA v : FALSE)

\* critical_violations = [v for v in violations if v.get('severity') == 'error']
critical_violations(violations) == SelectSeq(violations, LAMBDA v : v.severity = "error")

\* The entries {"name", "type", "cardinality"} collected from a class body
BodyAttributes(body) ==
    MapSeq(LAMBDA item : [name |-> item.attribute_name,
                          type |-> item.attribute_type,
                          cardinality |-> item.cardinality],
           SelectSeq(OrEmpty(body), LAMBDA item : item.node_type = "attribute"))

\* The entries {"stereotype", "target", "cardinality"} collected from a class body
BodyInternalRelations(body) ==
    MapSeq(LAMBDA item : [stereotype |-> item.relation_stereotype,
                          target |-> item.second_end,
                          cardinality |-> item.second_cardinality],
           SelectSeq(OrEmpty(body), LAMBDA item : item.node_type = "internal_relation"))

\* {"name", "has_body"} plus "attributes" / "internal_relations" when non-empty
MemberInfo(name, has_body, attributes, internal_relations) ==
    [f \in {"name", "has_body"}
            \cup (IF attributes # <<>> THEN {"attributes"} ELSE {})
            \cup (IF internal_relations # <<>> THEN {"internal_relations"} ELSE {}) |->
        IF f = "name" THEN name
        ELSE IF f = "has_body" THEN has_body
        ELSE IF f = "attributes" THEN attributes
        ELSE internal_relations]

\* body is not None and len(body) > 0
HasBody(body) == body # None /\ Len(body.items) > 0

\* body is not None and len(body) == 0
EmptyBraces(body) == body # None /\ Len(body.items) = 0

\* The *_ATTRIBUTE_TYPE_NOT_FOUND errors of one class body, in body order
AttributeTypeErrors(st, body, code, label, owner) ==
    MapSeq(LAMBDA item :
               [code |-> code,
                severity |-> "error",
                message |-> label \o " '" \o owner \o "' attribute '" \o item.attribute_name
                            \o "' has undefined type '" \o item.attribute_type \o "'"],
           SelectSeq(OrEmpty(body),
                     LAMBDA item : /\ item.node_type = "attribute"
                                   /\ Truthy(item.attribute_type)
                                   /\ resolve_type(st, item.attribute_type) = None))

GensetNames(gensets) == MapSeq(LAMBDA g : g.genset_name, gensets)

ClassNamesOf(classes) == MapSeq(LAMBDA c : c.class_name, classes)

(***************************************************************************)
(* ParserSemantic._detect_subkind_patterns                                 *)
(***************************************************************************)
\* The *_SINGLE_IN_GENSET warnings of a group with one member
SingleInGensetWarnings(st, code, pattern_type, parent_name, single, text1, text2) ==
    MapSeq(LAMBDA genset :
               [code |-> code,
                severity |-> "warning",
                message |-> "Genset '" \o genset.genset_name \o "' has only one " \o text1
                            \o " '" \o single \o "'. " \o text2,
                pattern_type |-> pattern_type,
                anchor_class |-> parent_name,
                line |-> "None",
                column |-> "None"],
           SelectSeq(get_genset_for_specific(st, single),
                     LAMBDA genset : genset.general = parent_name /\ Len(genset.specifics) = 1))

\* The body of the loop over potential_parents
SubkindParent(st, seed, out, parent_class) ==
    LET parent_name == parent_class.class_name
        parent_stereotype == parent_class.class_stereotype
        subkind_children == get_children_of(st, parent_name, "subkind")
        subkind_names == ClassNamesOf(subkind_children)
    IN IF subkind_children = <<>> THEN out
       ELSE IF Len(subkind_names) = 1
       THEN [out EXCEPT !.warnings = @ \o
                SingleInGensetWarnings(st, "SUBKIND_SINGLE_IN_GENSET", "Subkind_Pattern",
                    parent_name, subkind_names[1], "subkind",
                    "Gensets should partition multiple specifics.")]
       ELSE
       LET genset_def == _find_matching_genset(st, parent_name, subkind_names)
           genset_specifics == IF genset_def = None THEN {} ELSE ToSet(genset_def.specifics)
           detected_specifics == ToSet(subkind_names)
           missing_specifics == detected_specifics \ genset_specifics
           all_specifics == SetOrder(genset_specifics \cup detected_specifics, seed)
           \* VALIDACAO 2
           v2 == IF genset_def = None
                 THEN <<[code |-> "MISSING_GENSET",
                         severity |-> "warning",
                         message |-> "Subkind_Pattern for '" \o parent_name
                                     \o "' should have a genset to formalize the generalization",
                         line |-> "None",
                         column |-> "None"]>>
                 ELSE <<>>
           s2 == IF genset_def = None
                 THEN <<Suggestion("insert_code",
                                   "Add a genset to formalize the subkind pattern",
                                   _suggest_genset(parent_name, subkind_names, TRUE, FALSE))>>
                 ELSE <<>>
           \* VALIDACAO 3
           v3 == IF genset_def # None /\ missing_specifics # {}
                 THEN <<[code |-> "INCOMPLETE_GENSET_SPECIFICS",
                         severity |-> "warning",
                         message |-> "Genset '" \o genset_def.genset_name
                                     \o "' is missing subkinds: "
                                     \o Join(SetOrder(missing_specifics, seed), ", "),
                         line |-> "None",
                         column |-> "None"]>>
                 ELSE <<>>
           s3 == IF genset_def # None /\ missing_specifics # {}
                 THEN <<Suggestion("modify_code",
                                   "Update genset to include all subkinds",
                                   _suggest_genset(parent_name, all_specifics,
                                                   genset_def.disjoint, genset_def.complete))>>
                 ELSE <<>>
           \* VALIDACAO 4
           v4 == IF genset_def # None /\ ~genset_def.disjoint
                 THEN <<[code |-> "MISSING_DISJOINT",
                         severity |-> "warning",
                         message |-> "Subkind_Pattern genset '" \o genset_def.genset_name
                                     \o "' should have 'disjoint' keyword (subkinds are mutually exclusive)",
                         line |-> "None",
                         column |-> "None"]>>
                 ELSE <<>>
           s4 == IF genset_def # None /\ ~genset_def.disjoint
                 THEN <<Suggestion("add_keyword",
                                   "Add 'disjoint' keyword to genset",
                                   "disjoint genset " \o genset_def.genset_name \o " { ... }")>>
                 ELSE <<>>
           \* VALIDACAO 5
           v5 == MapSeq(LAMBDA subkind_name :
                            [code |-> "SUBKIND_IN_MULTIPLE_GENSETS",
                             severity |-> "warning",
                             message |-> "Subkind '" \o subkind_name
                                 \o "' appears in multiple gensets: "
                                 \o Join(GensetNames(get_genset_for_specific(st, subkind_name)), ", ")
                                 \o ". This may cause inconsistencies."],
                        SelectSeq(subkind_names,
                                  LAMBDA n : Len(get_genset_for_specific(st, n)) > 1))
           violations == v2 \o v3 \o v4 \o v5
           suggestions == s2 \o s3 \o s4
           \* VALIDACAO 6
           empty_braces ==
               MapSeq(LAMBDA c :
                          [code |-> "SUBKIND_WITH_EMPTY_BRACES",
                           severity |-> "warning",
                           message |-> "Subkind '" \o c.class_name
                               \o "' has empty braces. Consider removing them or adding content",
                           pattern_type |-> "Subkind_Pattern",
                           anchor_class |-> parent_name],
                      SelectSeq(subkind_children, LAMBDA c : EmptyBraces(c.body)))
           type_errors ==
               Flatten(MapSeq(LAMBDA c : AttributeTypeErrors(st, c.body,
                                             "SUBKIND_ATTRIBUTE_TYPE_NOT_FOUND", "Subkind",
                                             c.class_name),
                              subkind_children))
           subkinds_details ==
               MapSeq(LAMBDA c : MemberInfo(c.class_name, HasBody(c.body),
                                            BodyAttributes(c.body),
                                            BodyInternalRelations(c.body)),
                      subkind_children)
           constraints ==
               [disjoint |-> IF genset_def # None THEN genset_def.disjoint ELSE FALSE,
                complete |-> IF genset_def # None THEN genset_def.complete ELSE FALSE,
                has_genset |-> genset_def # None]
           elements ==
               [general |-> parent_name,
                general_stereotype |-> parent_stereotype,
                specifics |-> subkind_names,
                genset |-> IF genset_def # None THEN genset_def.genset_name ELSE "None",
                subkinds_details |-> subkinds_details]
           pattern == _create_pattern("Subkind_Pattern", parent_name, parent_stereotype,
                                      elements, constraints, violations, suggestions)
       IN IF violations # <<>>
          THEN [out EXCEPT !.incomplete_patterns = Append(@, pattern),
                           !.errors = @ \o type_errors,
                           !.warnings = @ \o empty_braces
                                          \o CopyViolations(violations, suggestions,
                                                            "Subkind_Pattern", parent_name)]
          ELSE [out EXCEPT !.patterns = Append(@, pattern),
                           !.errors = @ \o type_errors,
                           !.warnings = @ \o empty_braces]

_detect_subkind_patterns(st, seed, out) ==
    LET kinds == get_classes_by_stereotype(st, "kind")
        subkinds_as_parents == get_classes_by_stereotype(st, "subkind")
        potential_parents == kinds \o subkinds_as_parents
    IN FoldLeft(LAMBDA acc, parent_class : SubkindParent(st, seed, acc, parent_class),
                out, potential_parents)

(***************************************************************************)
(* ParserSemantic._detect_role_patterns and _detect_phase_patterns: the    *)
(* first loop, which groups the role (phase) classes by their first parent.*)
(* The two loops differ in their stereotype sets and texts only.           *)
(***************************************************************************)
RoleWords ==
    [label |-> "Role", plural |-> "roles", pattern_type |-> "Role_Pattern",
     valid_parent_stereotypes |-> {"kind", "subkind", "category", "role", "roleMixin"},
     invalid_parent_stereotypes |-> {"phase", "mode", "relator"},
     invalid_parent_code |-> "ROLE_INVALID_PARENT",
     invalid_parent_tail |-> "Roles must specialize from kind, subkind, category, or another role.",
     unusual_parent_code |-> "ROLE_UNUSUAL_PARENT",
     unusual_parent_tail |-> "Typically roles specialize from kind, subkind, or category.",
     empty_braces_code |-> "ROLE_WITH_EMPTY_BRACES",
     attribute_code |-> "ROLE_ATTRIBUTE_TYPE_NOT_FOUND",
     relation_code |-> "ROLE_INVALID_RELATION_STEREOTYPE",
     without_specialization_code |-> "ROLE_WITHOUT_SPECIALIZATION"]

PhaseWords ==
    [label |-> "Phase", plural |-> "phases", pattern_type |-> "Phase_Pattern",
     valid_parent_stereotypes |-> {"kind", "subkind", "category", "phase"},
     invalid_parent_stereotypes |-> {"role", "mode", "relator", "roleMixin"},
     invalid_parent_code |-> "PHASE_INVALID_PARENT",
     invalid_parent_tail |-> "Phases must specialize from kind, subkind, category, or another phase.",
     unusual_parent_code |-> "PHASE_UNUSUAL_PARENT",
     unusual_parent_tail |-> "Typically phases specialize from kind, subkind, or category.",
     empty_braces_code |-> "PHASE_WITH_EMPTY_BRACES",
     attribute_code |-> "PHASE_ATTRIBUTE_TYPE_NOT_FOUND",
     relation_code |-> "PHASE_INVALID_RELATION_STEREOTYPE",
     without_specialization_code |-> "PHASE_WITHOUT_SPECIALIZATION"]

\* State of the first loop: the accumulators of the instance and the locals
\* roles_by_parent (dict parent -> list of names), roles_without_specialization
\* and role_bodies (dict name -> body information)
NewGrouping(out) ==
    [out |-> out, by_parent |-> <<>>, without_specialization |-> <<>>, bodies |-> <<>>]

\* class_def.get('specialization', {}).get('parents', []): the key is always
\* present in a class_definition node, so the default {} is never used and a
\* value of None has no attribute get
ParentsRaises(class_def) == class_def.specialization = None

MemberStep(st, w, acc, member) ==
    IF acc.out.raised THEN acc
    ELSE IF ParentsRaises(member) THEN [acc EXCEPT !.out.raised = TRUE]
    ELSE
    LET name == member.class_name
        parents == member.specialization.parents
        body == member.body
    IN IF parents = <<>>
       THEN [acc EXCEPT !.without_specialization = Append(@, name)]
       ELSE
       LET primary_parent == parents[1]
           parent_class == get_class(st, primary_parent)
           parent_stereotype == IF parent_class # None THEN parent_class.class_stereotype
                                ELSE "None"
       IN IF parent_class # None /\ parent_stereotype \in w.invalid_parent_stereotypes
          THEN [acc EXCEPT !.out.errors = Append(@,
                   [code |-> w.invalid_parent_code,
                    severity |-> "error",
                    message |-> w.label \o " '" \o name \o "' cannot specialize from '"
                                \o parent_stereotype \o "' ('" \o primary_parent \o "'). "
                                \o w.invalid_parent_tail,
                    line |-> "None",
                    column |-> "None"])]
          ELSE
          LET unusual ==
                  IF parent_class # None /\ parent_stereotype \notin w.valid_parent_stereotypes
                  THEN <<[code |-> w.unusual_parent_code,
                          severity |-> "warning",
                          message |-> w.label \o " '" \o name \o "' specializes from '"
                                      \o parent_stereotype \o "' ('" \o primary_parent \o "'). "
                                      \o w.unusual_parent_tail,
                          pattern_type |-> w.pattern_type,
                          anchor_class |-> primary_parent,
                          line |-> "None",
                          column |-> "None"]>>
                  ELSE <<>>
              empty_braces ==
                  IF EmptyBraces(body)
                  THEN <<[code |-> w.empty_braces_code,
                          severity |-> "warning",
                          message |-> w.label \o " '" \o name
                              \o "' has empty braces. Consider removing them or adding content",
                          pattern_type |-> w.pattern_type,
                          anchor_class |-> primary_parent]>>
                  ELSE <<>>
              relation_warnings ==
                  MapSeq(LAMBDA item :
                             [code |-> w.relation_code,
                              severity |-> "warning",
                              message |-> w.label \o " '" \o name \o "' has @"
                                  \o item.relation_stereotype
                                  \o " relation. This stereotype is typically used in relators/modes, not "
                                  \o w.plural \o ".",
                              pattern_type |-> w.pattern_type,
                              anchor_class |-> primary_parent],
                         SelectSeq(OrEmpty(body),
                                   LAMBDA item :
                                       /\ item.node_type = "internal_relation"
                                       /\ item.relation_stereotype \in
                                            {"mediation", "characterization", "externalDependence"}))
              info == [has_body |-> HasBody(body),
                       attributes |-> BodyAttributes(body),
                       internal_relations |-> BodyInternalRelations(body)]
          IN [acc EXCEPT
                !.out.errors = @ \o AttributeTypeErrors(st, body, w.attribute_code, w.label, name),
                !.out.warnings = @ \o unusual \o empty_braces \o relation_warnings,
                !.bodies = DictPut(@, name, info),
                !.by_parent = DictPut(@, primary_parent,
                                      IF DictHas(@, primary_parent)
                                      THEN Append(DictGet(@, primary_parent), name)
                                      ELSE <<name>>)]

\* The loop over roles_without_specialization (phases_without_specialization)
WithoutSpecializationErrors(w, names) ==
    MapSeq(LAMBDA name :
               [code |-> w.without_specialization_code,
                severity |-> "error",
                message |-> w.label \o " '" \o name
                            \o "' must specialize from a kind or other sortal"],
           names)

\* roles_info / phases_info of a group
MembersInfo(bodies, names) ==
    MapSeq(LAMBDA name : MemberInfo(name, DictGet(bodies, name).has_body,
                                    DictGet(bodies, name).attributes,
                                    DictGet(bodies, name).internal_relations),
           names)

\* parent_class_def.get('class_stereotype', 'unknown') if parent_class_def else 'unknown'
AnchorStereotype(st, parent_class) ==
    IF get_class(st, parent_class) # None
    THEN get_class(st, parent_class).class_stereotype
    ELSE "unknown"

(***************************************************************************)
(* ParserSemantic._detect_role_patterns: the loop over roles_by_parent     *)
(***************************************************************************)
RoleGroup(st, seed, bodies, out, parent_class, role_names) ==
    IF Len(role_names) = 0 THEN out
    ELSE IF Len(role_names) = 1
    THEN [out EXCEPT !.warnings = @ \o
             SingleInGensetWarnings(st, "ROLE_SINGLE_IN_GENSET", "Role_Pattern",
                 parent_class, role_names[1], "role",
                 "Gensets should partition multiple roles.")]
    ELSE
    LET genset_def == _find_matching_genset(st, parent_class, role_names)
        genset_specifics == IF genset_def = None THEN {} ELSE ToSet(genset_def.specifics)
        detected_specifics == ToSet(role_names)
        missing_specifics == detected_specifics \ genset_specifics
        all_specifics == SetOrder(genset_specifics \cup detected_specifics, seed)
        v1 == IF genset_def = None
              THEN <<[code |-> "SUGGESTED_GENSET",
                      severity |-> "warning",
                      message |-> "Multiple roles specializing '" \o parent_class
                                  \o "' could benefit from a genset for clarity"]>>
              ELSE <<>>
        s1 == IF genset_def = None
              THEN <<Suggestion("insert_code",
                                "Consider adding a genset to formalize the role pattern",
                                _suggest_genset(parent_class, role_names, FALSE, FALSE))>>
              ELSE <<>>
        v2 == IF genset_def # None /\ missing_specifics # {}
              THEN <<[code |-> "INCOMPLETE_GENSET_SPECIFICS",
                      severity |-> "warning",
                      message |-> "Genset '" \o genset_def.genset_name \o "' is missing roles: "
                                  \o Join(SetOrder(missing_specifics, seed), ", "),
                      line |-> "None",
                      column |-> "None"]>>
              ELSE <<>>
        s2 == IF genset_def # None /\ missing_specifics # {}
              THEN <<Suggestion("modify_code",
                                "Update genset to include all roles",
                                _suggest_genset(parent_class, all_specifics, FALSE,
                                                genset_def.complete))>>
              ELSE <<>>
        v3 == IF genset_def # None /\ genset_def.disjoint
              THEN <<[code |-> "ROLE_GENSET_HAS_DISJOINT",
                      severity |-> "warning",
                      message |-> "Genset '" \o genset_def.genset_name
                          \o "' for roles should NOT use 'disjoint' keyword (roles can overlap - e.g., a person can be both Student and Employee)",
                      line |-> "None",
                      column |-> "None"]>>
              ELSE <<>>
        s3 == IF genset_def # None /\ genset_def.disjoint
              THEN <<Suggestion("remove_keyword",
                                "Remove 'disjoint' keyword from genset (not applicable to roles)",
                                _suggest_genset(parent_class, SetOrder(genset_specifics, seed),
                                                FALSE, genset_def.complete))>>
              ELSE <<>>
        v4 == IF genset_def # None /\ genset_def.complete
              THEN <<[code |-> "ROLE_GENSET_COMPLETE",
                      severity |-> "info",
                      message |-> "Genset '" \o genset_def.genset_name
                          \o "' is 'complete'. This means every '" \o parent_class
                          \o "' instance must play at least one of these roles: "
                          \o Join(role_names, ", ") \o ". Ensure this is intentional.",
                      line |-> "None",
                      column |-> "None"]>>
              ELSE <<>>
        violations == v1 \o v2 \o v3 \o v4
        suggestions == s1 \o s2 \o s3
        multiple ==
            MapSeq(LAMBDA role_name :
                       [code |-> "ROLE_IN_MULTIPLE_GENSETS",
                        severity |-> "info",
                        message |-> "Role '" \o role_name \o "' appears in multiple gensets: "
                            \o Join(GensetNames(get_genset_for_specific(st, role_name)), ", ")
                            \o ". This is valid (roles can overlap across different partitions).",
                        pattern_type |-> "Role_Pattern",
                        anchor_class |-> parent_class],
                   SelectSeq(role_names, LAMBDA n : Len(get_genset_for_specific(st, n)) > 1))
        constraints ==
            [disjoint |-> IF genset_def # None THEN genset_def.disjoint ELSE FALSE,
             complete |-> IF genset_def # None THEN genset_def.complete ELSE FALSE,
             has_genset |-> genset_def # None]
        elements ==
            [general |-> parent_class,
             specifics |-> role_names,
             genset |-> IF genset_def # None THEN genset_def.genset_name ELSE "None",
             roles_details |-> MembersInfo(bodies, role_names)]
        pattern == _create_pattern("Role_Pattern", parent_class,
                                   AnchorStereotype(st, parent_class),
                                   elements, constraints, violations, suggestions)
        copied == CopyViolations(violations, suggestions, "Role_Pattern", parent_class)
    IN IF critical_violations(violations) # <<>>
       THEN [out EXCEPT !.incomplete_patterns = Append(@, pattern),
                        !.warnings = @ \o multiple \o copied]
       ELSE [out EXCEPT !.patterns = Append(@, pattern),
                        !.warnings = @ \o multiple \o copied]

_detect_role_patterns(st, seed, out) ==
    LET all_roles == get_classes_by_stereotype(st, "role")
        grouping == FoldLeft(LAMBDA acc, role_class : MemberStep(st, RoleWords, acc, role_class),
                             NewGrouping(out), all_roles)
        out1 == [grouping.out EXCEPT !.errors = @ \o
                    WithoutSpecializationErrors(RoleWords, grouping.without_specialization)]
    IN IF grouping.out.raised THEN grouping.out
       ELSE FoldLeft(LAMBDA acc, entry :
                         RoleGroup(st, seed, grouping.bodies, acc, entry.key, entry.val),
                     out1, grouping.by_parent)

(***************************************************************************)
(* ParserSemantic._detect_phase_patterns: the loop over phases_by_parent   *)
(***************************************************************************)
PhaseGroup(st, seed, bodies, out, parent_class, phase_names) ==
    IF Len(phase_names) = 0 THEN out
    ELSE IF Len(phase_names) = 1
    THEN [out EXCEPT !.warnings = @ \o
             SingleInGensetWarnings(st, "PHASE_SINGLE_IN_GENSET", "Phase_Pattern",
                 parent_class, phase_names[1], "phase",
                 "Phase partitions require at least two mutually exclusive states.")]
    ELSE
    LET genset_def == _find_matching_genset(st, parent_class, phase_names)
        genset_specifics == IF genset_def = None THEN {} ELSE ToSet(genset_def.specifics)
        detected_specifics == ToSet(phase_names)
        missing_specifics == detected_specifics \ genset_specifics
        all_specifics == SetOrder(genset_specifics \cup detected_specifics, seed)
        v1 == IF genset_def = None
              THEN <<[code |-> "SUGGESTED_GENSET",
                      severity |-> "warning",
                      message |-> "Multiple phases specializing '" \o parent_class
                          \o "' should have a genset to formalize the phase partition (mutually exclusive states)"]>>
              ELSE <<>>
        s1 == IF genset_def = None
              THEN <<Suggestion("insert_code",
                                "Consider adding a genset with 'disjoint' to formalize the phase pattern",
                                _suggest_genset(parent_class, phase_names, TRUE, FALSE))>>
              ELSE <<>>
        v2 == IF genset_def # None /\ missing_specifics # {}
              THEN <<[code |-> "INCOMPLETE_GENSET_SPECIFICS",
                      severity |-> "warning",
                      message |-> "Genset '" \o genset_def.genset_name \o "' is missing phases: "
                                  \o Join(SetOrder(missing_specifics, seed), ", "),
                      line |-> "None",
                      column |-> "None"]>>
              ELSE <<>>
        s2 == IF genset_def # None /\ missing_specifics # {}
              THEN <<Suggestion("modify_code",
                                "Update genset to include all phases",
                                _suggest_genset(parent_class, all_specifics, TRUE,
                                                genset_def.complete))>>
              ELSE <<>>
        v3 == IF genset_def # None /\ ~genset_def.disjoint
              THEN <<[code |-> "MISSING_DISJOINT",
                      severity |-> "error",
                      message |-> "Phase_Pattern genset '" \o genset_def.genset_name
                          \o "' MUST have 'disjoint' keyword (phases are mutually exclusive temporal states)",
                      line |-> "None",
                      column |-> "None"]>>
              ELSE <<>>
        s3 == IF genset_def # None /\ ~genset_def.disjoint
              THEN <<Suggestion("add_keyword",
                                "Add 'disjoint' keyword to genset (mandatory for phases)",
                                "disjoint genset " \o genset_def.genset_name \o " { ... }")>>
              ELSE <<>>
        v4 == IF genset_def # None /\ genset_def.complete
              THEN <<[code |-> "PHASE_GENSET_COMPLETE",
                      severity |-> "info",
                      message |-> "Genset '" \o genset_def.genset_name
                          \o "' is 'complete'. This means every '" \o parent_class
                          \o "' instance is always in exactly one of these phases: "
                          \o Join(phase_names, ", ")
                          \o ". Ensure this covers all possible temporal states.",
                      line |-> "None",
                      column |-> "None"]>>
              ELSE <<>>
        violations == v1 \o v2 \o v3 \o v4
        suggestions == s1 \o s2 \o s3
        multiple ==
            MapSeq(LAMBDA phase_name :
                       [code |-> "PHASE_IN_MULTIPLE_GENSETS",
                        severity |-> "error",
                        message |-> "Phase '" \o phase_name \o "' appears in multiple gensets: "
                            \o Join(GensetNames(get_genset_for_specific(st, phase_name)), ", ")
                            \o ". Phases are mutually exclusive and cannot participate in multiple partitions.",
                        pattern_type |-> "Phase_Pattern",
                        anchor_class |-> parent_class],
                   SelectSeq(phase_names, LAMBDA n : Len(get_genset_for_specific(st, n)) > 1))
        constraints ==
            [disjoint |-> IF genset_def # None THEN genset_def.disjoint ELSE FALSE,
             complete |-> IF genset_def # None THEN genset_def.complete ELSE FALSE,
             has_genset |-> genset_def # None]
        elements ==
            [general |-> parent_class,
             specifics |-> phase_names,
             genset |-> IF genset_def # None THEN genset_def.genset_name ELSE "None",
             phases_details |-> MembersInfo(bodies, phase_names)]
        pattern == _create_pattern("Phase_Pattern", parent_class,
                                   AnchorStereotype(st, parent_class),
                                   elements, constraints, violations, suggestions)
        copied == CopyViolations(violations, suggestions, "Phase_Pattern", parent_class)
    IN IF critical_violations(violations) # <<>>
       THEN [out EXCEPT !.incomplete_patterns = Append(@, pattern),
                        !.errors = @ \o multiple,
                        !.warnings = @ \o copied]
       ELSE [out EXCEPT !.patterns = Append(@, pattern),
                        !.errors = @ \o multiple,
                        !.warnings = @ \o copied]

_detect_phase_patterns(st, seed, out) ==
    LET all_phases == get_classes_by_stereotype(st, "phase")
        grouping == FoldLeft(LAMBDA acc, phase_class : MemberStep(st, PhaseWords, acc, phase_class),
                             NewGrouping(out), all_phases)
        out1 == [grouping.out EXCEPT !.errors = @ \o
                    WithoutSpecializationErrors(PhaseWords, grouping.without_specialization)]
    IN IF grouping.out.raised THEN grouping.out
       ELSE FoldLeft(LAMBDA acc, entry :
                         PhaseGroup(st, seed, grouping.bodies, acc, entry.key, entry.val),
                     out1, grouping.by_parent)

(***************************************************************************)
(* ParserSemantic._detect_relator_patterns                                 *)
(***************************************************************************)
\* The body of the loop over all_relators
RelatorStep(st, out, relator_class) ==
    LET relator_name == relator_class.class_name
        body == OrEmpty(relator_class.body)
        internal_relations == SelectSeq(body, LAMBDA item : item.node_type = "internal_relation")
        \* VALIDACAO 1
        v1 == IF Len(body) = 0
              THEN <<[code |-> "RELATOR_WITHOUT_BODY",
                      severity |-> "warning",
                      message |-> "Relator '" \o relator_name
                                  \o "' has no body (no internal relations)"]>>
              ELSE <<>>
        s1 == IF Len(body) = 0
              THEN <<Suggestion("add_mediations",
                         "Add mediation relations to connect at least two participants",
                         "relator " \o relator_name
                         \o " {\n    @mediation [1] -- [1] ParticipantClass1\n    @mediation [1] -- [1] ParticipantClass2\n}")>>
              ELSE <<>>
        mediations == SelectSeq(internal_relations,
                                LAMBDA rel : rel.relation_stereotype = "mediation")
        \* VALIDACAO 2
        v2 == IF Len(internal_relations) > 0 /\ Len(mediations) = 0
              THEN <<[code |-> "RELATOR_WITHOUT_MEDIATIONS",
                      severity |-> "error",
                      message |-> "Relator '" \o relator_name
                          \o "' has no mediation relations (all internal relations must use @mediation)"]>>
              ELSE <<>>
        s2 == IF Len(internal_relations) > 0 /\ Len(mediations) = 0
              THEN <<Suggestion("add_stereotype",
                                "Add @mediation stereotype to internal relations",
                                "@mediation [1] -- [1] TargetClass")>>
              ELSE <<>>
        \* VALIDACAO 3
        v3 == IF Len(mediations) = 1
              THEN <<[code |-> "INSUFFICIENT_MEDIATIONS",
                      severity |-> "error",
                      message |-> "Relator '" \o relator_name
                          \o "' must connect at least two participants (found only 1 mediation)"]>>
              ELSE <<>>
        s3 == IF Len(mediations) = 1
              THEN <<Suggestion("add_mediation",
                                "Add at least one more mediation relation",
                                "@mediation [1] -- [1] AnotherParticipant")>>
              ELSE <<>>
        \* VALIDACAO 4
        relations_without_mediation ==
            SelectSeq(internal_relations, LAMBDA rel : rel.relation_stereotype # "mediation")
        v4 == MapSeq(LAMBDA rel :
                         [code |-> "MISSING_MEDIATION_STEREOTYPE",
                          severity |-> "error",
                          message |-> "Relation to '" \o rel.second_end \o "' in relator '"
                                      \o relator_name \o "' must use @mediation stereotype"],
                     relations_without_mediation)
        s4 == MapSeq(LAMBDA rel :
                         Suggestion("add_stereotype",
                                    "Add @mediation stereotype to relation with '"
                                        \o rel.second_end \o "'",
                                    "@mediation [1] -- [1] " \o rel.second_end),
                     relations_without_mediation)
        \* VALIDACAO 5
        with_target == SelectSeq(mediations, LAMBDA m : Truthy(m.second_end))
        mediation_targets == MapSeq(LAMBDA m : m.second_end, with_target)
        v5 == MapSeq(LAMBDA m :
                         [code |-> "MEDIATION_TARGET_NOT_FOUND",
                          severity |-> "error",
                          message |-> "Mediation target '" \o m.second_end \o "' in relator '"
                                      \o relator_name \o "' does not exist in symbol table"],
                     SelectSeq(with_target, LAMBDA m : ~class_exists(st, m.second_end)))
        \* VALIDACAO 6
        material_relations == get_relations_by_stereotype(st, "material")
        Links(rel) == /\ rel.node_type = "external_relation"
                      /\ Contains(mediation_targets, rel.first_end)
                      /\ Contains(mediation_targets, rel.second_end)
                      /\ rel.first_end # rel.second_end
        linking == SelectSeq(material_relations, Links)
        material_relation ==
            IF Len(mediation_targets) >= 2 /\ linking # <<>>
            THEN [first_end |-> linking[1].first_end,
                  second_end |-> linking[1].second_end,
                  relation_name |-> linking[1].relation_name,
                  first_cardinality |-> linking[1].first_cardinality,
                  second_cardinality |-> linking[1].second_cardinality]
            ELSE None
        v6 == IF Len(mediation_targets) >= 2 /\ material_relation = None
              THEN <<[code |-> "MISSING_MATERIAL_RELATION",
                      severity |-> "warning",
                      message |-> "Relator '" \o relator_name
                          \o "' should have a corresponding @material relation connecting the mediated participants"]>>
              ELSE <<>>
        s6 == IF Len(mediation_targets) >= 2 /\ material_relation = None
              THEN <<Suggestion("add_external_relation",
                                "Add @material relation between " \o mediation_targets[1]
                                    \o " and " \o mediation_targets[2],
                                "@material relation " \o mediation_targets[1]
                                    \o " [1..*] -- relationName -- [1..*] "
                                    \o mediation_targets[2])>>
              ELSE <<>>
        violations == v1 \o v2 \o v3 \o v4 \o v5 \o v6
        suggestions == s1 \o s2 \o s3 \o s4 \o s6
        constraints ==
            [has_body |-> Len(body) > 0,
             mediation_count |-> Len(mediations),
             has_material_relation |-> material_relation # None]
        elements ==
            [relator |-> relator_name,
             mediations |-> MapSeq(LAMBDA m : [target |-> m.second_end,
                                               cardinality |-> m.second_cardinality],
                                   mediations),
             mediation_targets |-> mediation_targets,
             material_relation |-> material_relation]
        pattern == _create_pattern("Relator_Pattern", relator_name, "relator",
                                   elements, constraints, violations, suggestions)
    IN IF violations # <<>>
       THEN [out EXCEPT !.incomplete_patterns = Append(@, pattern),
                        !.warnings = @ \o CopyViolations(violations, suggestions,
                                                         "Relator_Pattern", relator_name)]
       ELSE [out EXCEPT !.patterns = Append(@, pattern)]

_detect_relator_patterns(st, out) ==
    FoldLeft(LAMBDA acc, relator_class : RelatorStep(st, acc, relator_class),
             out, get_classes_by_stereotype(st, "relator"))

(***************************************************************************)
(* ParserSemantic._detect_mode_patterns                                    *)
(***************************************************************************)
\* The entries {"target", "cardinality"} of elements
RelationTargets(relations) ==
    MapSeq(LAMBDA r : [target |-> r.second_end, cardinality |-> r.second_cardinality],
           relations)

\* The body of the loop over all_modes
ModeStep(st, out, mode_class) ==
    LET mode_name == mode_class.class_name
        body == mode_class.body
    IN IF EmptyBraces(body)
       THEN LET violations ==
                    <<[code |-> "MODE_WITH_EMPTY_BODY",
                       severity |-> "error",
                       message |-> "Mode '" \o mode_name
                           \o "' has empty braces. Remove them or add @characterization and @externalDependence relations"]>>
                suggestions ==
                    <<Suggestion("add_relations",
                          "Add required relations or remove empty braces",
                          "mode " \o mode_name \o " {\n"
                          \o "    @characterization [1..*] -- [1] TargetClass\n"
                          \o "    @externalDependence [1..*] -- [1] DependencyClass\n"
                          \o "}")>>
                pattern == _create_pattern("Mode_Pattern", mode_name, "mode",
                               [mode |-> mode_name,
                                characterizations |-> <<>>,
                                external_dependences |-> <<>>],
                               [has_body |-> FALSE,
                                characterization_count |-> 0,
                                external_dependence_count |-> 0],
                               violations, suggestions)
            IN [out EXCEPT !.incomplete_patterns = Append(@, pattern),
                           !.warnings = @ \o CopyViolations(violations, suggestions,
                                                            "Mode_Pattern", mode_name)]
       ELSE IF body = None THEN out
       ELSE
       LET internal_relations ==
               SelectSeq(body.items, LAMBDA item : item.node_type = "internal_relation")
           characterizations ==
               SelectSeq(internal_relations,
                         LAMBDA rel : rel.relation_stereotype = "characterization")
           external_dependences ==
               SelectSeq(internal_relations,
                         LAMBDA rel : rel.relation_stereotype = "externalDependence")
           \* VALIDACAO 1
           v1 == IF Len(characterizations) = 0
                 THEN <<[code |-> "MODE_WITHOUT_CHARACTERIZATION",
                         severity |-> "error",
                         message |-> "Mode '" \o mode_name
                             \o "' must have at least one @characterization relation"]>>
                 ELSE <<>>
           s1 == IF Len(characterizations) = 0
                 THEN <<Suggestion("add_characterization",
                            "Add @characterization relation to specify what this mode characterizes",
                            "    @characterization [1..*] -- [1] TargetClass")>>
                 ELSE <<>>
           \* VALIDACAO 2
           v2 == IF Len(external_dependences) = 0
                 THEN <<[code |-> "MODE_WITHOUT_EXTERNAL_DEPENDENCE",
                         severity |-> "error",
                         message |-> "Mode '" \o mode_name
                             \o "' must have at least one @externalDependence relation"]>>
                 ELSE <<>>
           s2 == IF Len(external_dependences) = 0
                 THEN <<Suggestion("add_external_dependence",
                            "Add @externalDependence relation to specify external dependencies",
                            "    @externalDependence [1..*] -- [1] DependencyClass")>>
                 ELSE <<>>
           \* VALIDACAO 3
           v3 == Flatten([i \in 1..Len(characterizations) |->
                     IF \E j \in 1..(i - 1) :
                            characterizations[j].second_end = characterizations[i].second_end
                     THEN <<[code |-> "MODE_DUPLICATE_CHARACTERIZATION",
                             severity |-> "warning",
                             message |-> "Mode '" \o mode_name
                                 \o "' has duplicate @characterization relations to '"
                                 \o characterizations[i].second_end \o "'"]>>
                     ELSE <<>>])
           \* VALIDACAO 4
           specialization == mode_class.specialization
           has_specialization == specialization # None /\ specialization.parents # <<>>
           v4 == IF has_specialization
                 THEN <<[code |-> "MODE_WITH_SPECIALIZATION",
                         severity |-> "warning",
                         message |-> "Mode '" \o mode_name
                             \o "' should not have specialization (no inheritance pattern defined for modes)"]>>
                 ELSE <<>>
           \* VALIDACAO 5
           gensets_as_specific == get_genset_for_specific(st, mode_name)
           v5 == IF gensets_as_specific # <<>>
                 THEN <<[code |-> "MODE_IN_GENSET",
                         severity |-> "warning",
                         message |-> "Mode '" \o mode_name \o "' should not be part of gensets: "
                                     \o Join(GensetNames(gensets_as_specific), ", ")]>>
                 ELSE <<>>
           \* VALIDACAO 6
           char_with_target == SelectSeq(characterizations, LAMBDA c : Truthy(c.second_end))
           v6 == Flatten(MapSeq(LAMBDA c :
                     IF get_class(st, c.second_end) = None
                     THEN <<[code |-> "MODE_CHARACTERIZATION_TARGET_NOT_FOUND",
                             severity |-> "error",
                             message |-> "Mode '" \o mode_name \o "' characterization target '"
                                 \o c.second_end \o "' does not exist in symbol table"]>>
                     ELSE IF get_class(st, c.second_end).class_stereotype
                                \notin {"kind", "role", "phase", "subkind", "category"}
                     THEN <<[code |-> "MODE_CHARACTERIZATION_INVALID_TARGET",
                             severity |-> "warning",
                             message |-> "Mode '" \o mode_name
                                 \o "' characterization should target a sortal, but '"
                                 \o c.second_end \o "' is '"
                                 \o get_class(st, c.second_end).class_stereotype \o "'"]>>
                     ELSE <<>>,
                     char_with_target))
           characterization_targets ==
               MapSeq(LAMBDA c : c.second_end,
                      SelectSeq(char_with_target, LAMBDA c : get_class(st, c.second_end) # None))
           ext_with_target == SelectSeq(external_dependences, LAMBDA e : Truthy(e.second_end))
           v7 == MapSeq(LAMBDA e :
                            [code |-> "MODE_EXTERNAL_DEPENDENCE_TARGET_NOT_FOUND",
                             severity |-> "error",
                             message |-> "Mode '" \o mode_name \o "' externalDependence target '"
                                 \o e.second_end \o "' does not exist in symbol table"],
                        SelectSeq(ext_with_target, LAMBDA e : ~class_exists(st, e.second_end)))
           external_dependence_targets ==
               MapSeq(LAMBDA e : e.second_end,
                      SelectSeq(ext_with_target, LAMBDA e : class_exists(st, e.second_end)))
           violations == v1 \o v2 \o v3 \o v4 \o v5 \o v6 \o v7
           suggestions == s1 \o s2
           constraints ==
               [has_body |-> Len(body.items) > 0,
                characterization_count |-> Len(characterizations),
                external_dependence_count |-> Len(external_dependences),
                has_specialization |-> has_specialization,
                in_genset |-> Len(gensets_as_specific) > 0]
           elements ==
               [mode |-> mode_name,
                characterizations |-> RelationTargets(characterizations),
                external_dependences |-> RelationTargets(external_dependences),
                characterization_targets |-> characterization_targets,
                external_dependence_targets |-> external_dependence_targets]
           pattern == _create_pattern("Mode_Pattern", mode_name, "mode",
                                      elements, constraints, violations, suggestions)
           copied == CopyViolations(violations, suggestions, "Mode_Pattern", mode_name)
       IN IF critical_violations(violations) # <<>>
          THEN [out EXCEPT !.incomplete_patterns = Append(@, pattern),
                           !.warnings = @ \o copied]
          ELSE [out EXCEPT !.patterns = Append(@, pattern),
                           !.warnings = @ \o copied]

_detect_mode_patterns(st, out) ==
    FoldLeft(LAMBDA acc, mode_class : ModeStep(st, acc, mode_class),
             out, get_classes_by_stereotype(st, "mode"))

(***************************************************************************)
(* ParserSemantic._detect_rolemixin_patterns                               *)
(***************************************************************************)
\* One iteration of "for specific in specifics" (VALIDACAO 4); acc holds the
\* locals violations, role_specifics, role_parents_map
RoleMixinSpecific(st, genset_name, acc, specific) ==
    LET specific_class == get_class(st, specific)
    IN IF acc.raised THEN acc
       ELSE IF specific_class = None
       THEN [acc EXCEPT !.violations = Append(@,
                [code |-> "ROLEMIXIN_GENSET_SPECIFIC_NOT_FOUND",
                 severity |-> "error",
                 message |-> "Genset '" \o genset_name \o "' specific '" \o specific
                             \o "' does not exist in symbol table"])]
       ELSE IF specific_class.class_stereotype = "role"
       THEN IF ParentsRaises(specific_class)
            THEN [acc EXCEPT !.raised = TRUE]
            ELSE IF specific_class.specialization.parents # <<>>
            THEN [acc EXCEPT !.role_specifics = Append(@, specific),
                             !.role_parents_map =
                                 DictPut(@, specific, specific_class.specialization.parents)]
            ELSE [acc EXCEPT !.role_specifics = Append(@, specific)]
       ELSE IF specific_class.class_stereotype = "roleMixin" THEN acc
       ELSE [acc EXCEPT !.violations = Append(@,
                [code |-> "ROLEMIXIN_GENSET_INVALID_SPECIFIC_STEREOTYPE",
                 severity |-> "warning",
                 message |-> "Genset '" \o genset_name \o "' specific '" \o specific
                             \o "' should be 'role' or 'roleMixin' (found: '"
                             \o specific_class.class_stereotype \o "')"])]

\* One iteration of "for genset_def in gensets_as_general" (VALIDACAO 3)
RoleMixinGenset(st, rolemixin_name, acc, genset_def) ==
    LET acc1 == IF genset_def.disjoint /\ ~acc.raised
                THEN [acc EXCEPT !.violations = Append(@,
                         [code |-> "ROLEMIXIN_GENSET_IS_DISJOINT",
                          severity |-> "info",
                          message |-> "Genset '" \o genset_def.genset_name
                              \o "' for RoleMixin '" \o rolemixin_name
                              \o "' is disjoint (mutually exclusive roles). This is less common - verify if roles can overlap."])]
                ELSE acc
    IN FoldLeft(LAMBDA a, specific :
                    RoleMixinSpecific(st, genset_def.genset_name, a, specific),
                acc1, genset_def.specifics)

\* The body of the loop over all_rolemixins
RoleMixinStep(st, out, rolemixin_class) ==
    LET rolemixin_name == rolemixin_class.class_name
        body == OrEmpty(rolemixin_class.body)
        \* VALIDACAO 1
        specialization == rolemixin_class.specialization
        has_specialization == specialization # None /\ specialization.parents # <<>>
        invalid_parents ==
            IF has_specialization
            THEN SelectSeq(specialization.parents,
                           LAMBDA p : /\ get_class(st, p) # None
                                      /\ get_class(st, p).class_stereotype # "roleMixin")
            ELSE <<>>
        v1 == IF invalid_parents # <<>>
              THEN <<[code |-> "ROLEMIXIN_INVALID_SPECIALIZATION",
                      severity |-> "warning",
                      message |-> "RoleMixin '" \o rolemixin_name
                          \o "' specializes from non-RoleMixin types: "
                          \o Join(MapSeq(LAMBDA p : "'" \o p \o "' ("
                                             \o get_class(st, p).class_stereotype \o ")",
                                         invalid_parents), ", ")
                          \o ". RoleMixins should only specialize other RoleMixins."]>>
              ELSE <<>>
        \* VALIDACAO 2
        gensets_as_general == get_gensets_for_general(st, rolemixin_name)
        v2 == IF gensets_as_general = <<>>
              THEN <<[code |-> "ROLEMIXIN_WITHOUT_GENSET",
                      severity |-> "warning",
                      message |-> "RoleMixin '" \o rolemixin_name
                          \o "' should have at least one genset where it is the general"]>>
              ELSE <<>>
        suggestions ==
              IF gensets_as_general = <<>>
              THEN <<Suggestion("add_genset",
                         "Add a genset with this RoleMixin as general and roles as specifics (typically overlapping)",
                         _suggest_genset(rolemixin_name, <<"RoleName1", "RoleName2">>,
                                         FALSE, FALSE))>>
              ELSE <<>>
        \* VALIDACAO 3 and 4
        scan == FoldLeft(LAMBDA acc, genset_def :
                             RoleMixinGenset(st, rolemixin_name, acc, genset_def),
                         [violations |-> v1 \o v2,
                          role_specifics |-> <<>>,
                          role_parents_map |-> <<>>,
                          raised |-> FALSE],
                         gensets_as_general)
        \* VALIDACAO 5
        all_parents == UNION {ToSet(scan.role_parents_map[i].val) :
                                 i \in 1..Len(scan.role_parents_map)}
        v5 == IF Len(scan.role_parents_map) > 1 /\ Cardinality(all_parents) = 1
              THEN <<[code |-> "ROLEMIXIN_ROLES_FROM_SAME_KIND",
                      severity |-> "info",
                      message |-> "RoleMixin '" \o rolemixin_name
                          \o "' groups roles that all specialize from '"
                          \o (CHOOSE p \in all_parents : TRUE)
                          \o "'. Consider if a regular genset on '"
                          \o (CHOOSE p \in all_parents : TRUE)
                          \o "' would be more appropriate."]>>
              ELSE <<>>
        \* VALIDACAO 6
        gensets_as_specific == get_genset_for_specific(st, rolemixin_name)
        invalid_generals ==
            SelectSeq(gensets_as_specific,
                      LAMBDA g : /\ get_class(st, g.general) # None
                                 /\ get_class(st, g.general).class_stereotype # "roleMixin")
        v6 == IF invalid_generals # <<>>
              THEN <<[code |-> "ROLEMIXIN_AS_SPECIFIC_OF_NON_ROLEMIXIN",
                      severity |-> "warning",
                      message |-> "RoleMixin '" \o rolemixin_name
                          \o "' is specific in gensets with non-RoleMixin generals: "
                          \o Join(MapSeq(LAMBDA g : "'" \o g.genset_name \o "' (general: '"
                                             \o g.general \o "' - "
                                             \o get_class(st, g.general).class_stereotype \o ")",
                                         invalid_generals), ", ")
                          \o ". RoleMixins should only specialize other RoleMixins."]>>
              ELSE <<>>
        \* VALIDACAO 7
        attributes == SelectSeq(body, LAMBDA item : item.node_type = "attribute")
        internal_relations == SelectSeq(body, LAMBDA item : item.node_type = "internal_relation")
        has_summary == attributes # <<>> \/ internal_relations # <<>>
        v7 == IF has_summary
              THEN <<[code |-> "ROLEMIXIN_WITH_BODY",
                      severity |-> "info",
                      message |-> "RoleMixin '" \o rolemixin_name
                          \o "' defines shared features for its roles ("
                          \o ToString(Len(attributes)) \o " attributes, "
                          \o ToString(Len(internal_relations)) \o " relations)"]>>
              ELSE <<>>
        violations == scan.violations \o v5 \o v6 \o v7
        constraints ==
            [has_body |-> Len(body) > 0,
             has_specialization |-> has_specialization,
             genset_count |-> Len(gensets_as_general),
             has_genset |-> Len(gensets_as_general) > 0,
             role_specifics_count |-> Len(scan.role_specifics),
             is_specific_in_gensets |-> Len(gensets_as_specific) > 0]
        gensets == MapSeq(LAMBDA g : [name |-> g.genset_name,
                                      disjoint |-> g.disjoint,
                                      complete |-> g.complete,
                                      specifics |-> g.specifics],
                          gensets_as_general)
        elements ==
            IF has_summary
            THEN [rolemixin |-> rolemixin_name,
                  gensets |-> gensets,
                  role_specifics |-> scan.role_specifics,
                  role_parents |-> scan.role_parents_map,
                  body_summary |-> [attribute_count |-> Len(attributes),
                                    relation_count |-> Len(internal_relations)]]
            ELSE [rolemixin |-> rolemixin_name,
                  gensets |-> gensets,
                  role_specifics |-> scan.role_specifics,
                  role_parents |-> scan.role_parents_map]
        pattern == _create_pattern("RoleMixin_Pattern", rolemixin_name, "roleMixin",
                                   elements, constraints, violations, suggestions)
        copied == CopyViolations(violations, suggestions, "RoleMixin_Pattern", rolemixin_name)
    IN IF out.raised THEN out
       ELSE IF scan.raised THEN [out EXCEPT !.raised = TRUE]
       ELSE IF critical_violations(violations) # <<>>
       THEN [out EXCEPT !.incomplete_patterns = Append(@, pattern),
                        !.warnings = @ \o copied]
       ELSE [out EXCEPT !.patterns = Append(@, pattern),
                        !.warnings = @ \o copied]

_detect_rolemixin_patterns(st, out) ==
    FoldLeft(LAMBDA acc, rolemixin_class : RoleMixinStep(st, acc, rolemixin_class),
             out, get_classes_by_stereotype(st, "roleMixin"))

(***************************************************************************)
(* ParserSemantic.analyze and _build_result                                *)
(***************************************************************************)
PatternTypes ==
    <<"Subkind_Pattern", "Role_Pattern", "Phase_Pattern", "Relator_Pattern",
      "Mode_Pattern", "RoleMixin_Pattern">>

_count_patterns(sem) ==
    [i \in 1..Len(PatternTypes) |->
        [key |-> PatternTypes[i],
         val |-> Len(SelectSeq(sem.patterns \o sem.incomplete_patterns,
                               LAMBDA p : p.pattern_type = PatternTypes[i]))]]

\* ParserSemantic.__init__
NewParserSemantic ==
    [patterns |-> <<>>,
     incomplete_patterns |-> <<>>,
     errors |-> <<>>,
     warnings |-> <<>>,
     raised |-> FALSE,
     symbol_table |-> None,
     package_name |-> "None",
     imports |-> <<>>]

_build_result(sem) ==
    [ontology |-> "None",
     files |-> <<[package |-> sem.package_name,
                  imports |-> sem.imports,
                  symbols |-> export(sem.symbol_table),
                  patterns |-> sem.patterns,
                  incomplete_patterns |-> sem.incomplete_patterns,
                  errors |-> sem.errors,
                  warnings |-> sem.warnings]>>,
     summary |-> [total_patterns |-> Len(sem.patterns) + Len(sem.incomplete_patterns),
                  complete_patterns |-> Len(sem.patterns),
                  incomplete_patterns |-> Len(sem.incomplete_patterns),
                  pattern_counts |-> _count_patterns(sem)]]

\* The six detector calls of analyze, in order; an exception raised by one
\* of them leaves analyze, so that the later ones do not run
Unless(out, Detector(_)) == IF out.raised THEN out ELSE Detector(out)

RunDetectors(st, seed) ==
    Unless(Unless(Unless(Unless(Unless(
        _detect_subkind_patterns(st, seed, NewOut),
        LAMBDA o1 : _detect_role_patterns(st, seed, o1)),
        LAMBDA o2 : _detect_phase_patterns(st, seed, o2)),
        LAMBDA o3 : _detect_relator_patterns(st, o3)),
        LAMBDA o4 : _detect_mode_patterns(st, o4)),
        LAMBDA o5 : _detect_rolemixin_patterns(st, o5))

\* The instance after analyze(ast) in a process whose set order is seed
analyze(ast, seed) ==
    Bind(populate_from_ast(NewSymbolTable, ast).table, LAMBDA st :
    Bind(RunDetectors(st, seed), LAMBDA out :
        [patterns |-> out.patterns,
         incomplete_patterns |-> out.incomplete_patterns,
         errors |-> out.errors,
         warnings |-> out.warnings,
         raised |-> out.raised,
         symbol_table |-> st,
         package_name |-> ast.package.package_name,
         imports |-> MapSeq(LAMBDA d : d.module_name, ast.imports)]))

\* What analyze hands back: the value of _build_result, or nothing when an
\* exception left the call
AnalyzeResult(sem) == IF sem.raised THEN None ELSE _build_result(sem)

(***************************************************************************)
(* TokenType: reserved words, literals and token categories                *)
(***************************************************************************)
language_keywords ==
    <<[key |-> "categorizer", val |-> "KEYWORD_CATEGORIZER"],
      [key |-> "enum", val |-> "KEYWORD_ENUM"],
      [key |-> "datatype", val |-> "KEYWORD_DATATYPE"],
      [key |-> "genset", val |-> "KEYWORD_GENSET"],
      [key |-> "disjoint", val |-> "KEYWORD_DISJOINT"],
      [key |-> "complete", val |-> "KEYWORD_COMPLETE"],
      [key |-> "general", val |-> "KEYWORD_GENERAL"],
      [key |-> "specifics", val |-> "KEYWORD_SPECIFICS"],
      [key |-> "where", val |-> "KEYWORD_WHERE"],
      [key |-> "package", val |-> "KEYWORD_PACKAGE"],
      [key |-> "import", val |-> "KEYWORD_IMPORT"],
      [key |-> "functional-complexes", val |-> "KEYWORD_FUNCTIONAL_COMPLEXES"],
      [key |-> "specializes", val |-> "KEYWORD_SPECIALIZES"],
      [key |-> "relator", val |-> "KEYWORD_RELATOR"],
      [key |-> "relators", val |-> "KEYWORD_RELATORS"],
      [key |-> "relation", val |-> "KEYWORD_RELATION"],
      [key |-> "inverseOf", val |-> "KEYWORD_INVERSEOF"]>>

class_stereotypes ==
    <<[key |-> "event", val |-> "CLASS_EVENT"],
      [key |-> "situation", val |-> "CLASS_SITUATION"],
      [key |-> "process", val |-> "CLASS_PROCESS"],
      [key |-> "category", val |-> "CLASS_CATEGORY"],
      [key |-> "mixin", val |-> "CLASS_MIXIN"],
      [key |-> "phaseMixin", val |-> "CLASS_PHASEMIXIN"],
      [key |-> "roleMixin", val |-> "CLASS_ROLEMIXIN"],
      [key |-> "historicalRoleMixin", val |-> "CLASS_HISTORICALROLEMIXIN"],
      [key |-> "kind", val |-> "CLASS_KIND"],
      [key |-> "collective", val |-> "CLASS_COLLECTIVE"],
      [key |-> "quantity", val |-> "CLASS_QUANTITY"],
      [key |-> "quality", val |-> "CLASS_QUALITY"],
      [key |-> "mode", val |-> "CLASS_MODE"],
      [key |-> "intrisicMode", val |-> "CLASS_INTRISICMODE"],
      [key |-> "extrinsicMode", val |-> "CLASS_EXTRINSICMODE"],
      [key |-> "subkind", val |-> "CLASS_SUBKIND"],
      [key |-> "phase", val |-> "CLASS_PHASE"],
      [key |-> "role", val |-> "CLASS_ROLE"],
      [key |-> "historicalRole", val |-> "CLASS_HISTORICALROLE"]>>

relation_stereotypes ==
    <<[key |-> "material", val |-> "RELATION_MATERIAL"],
      [key |-> "derivation", val |-> "RELATION_DERIVATION"],
      [key |-> "comparative", val |-> "RELATION_COMPARATIVE"],
      [key |-> "mediation", val |-> "RELATION_MEDIATION"],
      [key |-> "characterization", val |-> "RELATION_CHARACTERIZATION"],
      [key |-> "externalDependence", val |-> "RELATION_EXTERNALDEPENDENCE"],
      [key |-> "componentOf", val |-> "RELATION_COMPONENTOF"],
      [key |-> "memberOf", val |-> "RELATION_MEMBEROF"],
      [key |-> "subCollectionOf", val |-> "RELATION_SUBCOLLECTIONOF"],
      [key |-> "subQualityOf", val |-> "RELATION_SUBQUALITYOF"],
      [key |-> "instantiation", val |-> "RELATION_INSTANTIATION"],
      [key |-> "termination", val |-> "RELATION_TERMINATION"],
      [key |-> "participational", val |-> "RELATION_PARTICIPATIONAL"],
      [key |-> "participation", val |-> "RELATION_PARTICIPATION"],
      [key |-> "historicalDependence", val |-> "RELATION_HISTORICALDEPENDENCE"],
      [key |-> "creation", val |-> "RELATION_CREATION"],
      [key |-> "manifestation", val |-> "RELATION_MANIFESTATION"],
      [key |-> "bringsAbout", val |-> "RELATION_BRINGSABOUT"],
      [key |-> "triggers", val |-> "RELATION_TRIGGERS"],
      [key |-> "composition", val |-> "RELATION_COMPOSITION"],
      [key |-> "aggregation", val |-> "RELATION_AGGREGATION"],
      [key |-> "inherence", val |-> "RELATION_INHERENCE"],
      [key |-> "value", val |-> "RELATION_VALUE"],
      [key |-> "formal", val |-> "RELATION_FORMAL"],
      [key |-> "constitution", val |-> "RELATION_CONSTITUTION"]>>

meta_attributes ==
    <<[key |-> "ordered", val |-> "META_ORDERED"],
      [key |-> "const", val |-> "META_CONST"],
      [key |-> "derived", val |-> "META_DERIVED"],
      [key |-> "subsets", val |-> "META_SUBSETS"],
      [key |-> "redefines", val |-> "META_REDEFINES"]>>

\* reserved.update(...) of the five tables; their keys are pairwise distinct
reserved ==
    language_keywords \o class_stereotypes \o relation_stereotypes \o data_types
        \o meta_attributes

literals == <<"{", "}", "(", ")", "[", "]", "*", "@", ":", ",", "<", ">">>

get_token_category(token_type) ==
    IF Contains(DictValues(language_keywords), token_type) THEN "LANGUAGE_KEYWORD"
    ELSE IF Contains(DictValues(class_stereotypes), token_type) THEN "CLASS_STEREOTYPE"
    ELSE IF Contains(DictValues(relation_stereotypes), token_type) THEN "RELATION_STEREOTYPE"
    ELSE IF Contains(DictValues(data_types), token_type) THEN "DATA_TYPE"
    ELSE IF Contains(DictValues(meta_attributes), token_type) THEN "META_ATTRIBUTE"
    ELSE IF token_type = "IDENTIFIER" THEN "IDENTIFIER"
    ELSE IF token_type \in {"STRING", "NUMBER"} THEN "LITERAL"
    ELSE IF token_type \in {"[", "]", "(", ")", "{", "}"} THEN "DELIMITER"
    ELSE IF token_type \in {":", "*", "@", ".", "-"} THEN "PUNCTUATION"
    ELSE IF token_type \in {"CARDINALITY", "COMPOSITIONL", "COMPOSITIONR",
                            "AGGREGATIONL", "AGGREGATIONR"} THEN "RELATION_OPERATOR"
    ELSE IF token_type = "NEW_DATATYPE" THEN "NEW_DATATYPE"
    ELSE "OTHER"

(***************************************************************************)
(* MyLexer: the token rules.  A text is a sequence of one-character        *)
(* strings; positions (lexpos) count from 0 as in PLY, so that the         *)
(* character at position pos is data[pos + 1].                             *)
(***************************************************************************)
Lower ==
    {"a", "b", "c", "d", "e", "f", "g", "h", "i", "j", "k", "l", "m",
     "n", "o", "p", "q", "r", "s", "t", "u", "v", "w", "x", "y", "z"}

Upper ==
    {"A", "B", "C", "D", "E", "F", "G", "H", "I", "J", "K", "L", "M",
     "N", "O", "P", "Q", "R", "S", "T", "U", "V", "W", "X", "Y", "Z"}

Digits == <<"0", "1", "2", "3", "4", "5", "6", "7", "8", "9">>

Digit == ToSet(Digits)

Letter == Lower \cup Upper

\* str built from its characters
Str(chars) == Join(chars, "")

\* int(t.value) for a match of \d+
RECURSIVE IntOf(_)
IntOf(chars) ==
    IF chars = <<>> THEN 0
    ELSE IntOf(SubSeq(chars, 1, Len(chars) - 1)) * 10
         + ((CHOOSE i \in 1..Len(Digits) : Digits[i] = chars[Len(chars)]) - 1)

\* The result of a rule that does not match at the position
NoMatch == -1

\* End of the longest run of characters of S that starts at pos
RECURSIVE RunEnd(_, _, _)
RunEnd(data, pos, S) ==
    IF pos < Len(data) /\ data[pos + 1] \in S THEN RunEnd(data, pos + 1, S) ELSE pos

\* data[pos:].startswith(word)
StartsWith(data, pos, word) ==
    /\ pos + Len(word) <= Len(data)
    /\ SubSeq(data, pos + 1, pos + Len(word)) = word

\* A literal pattern: the end of the match, or NoMatch
MatchWord(data, pos, word) ==
    IF StartsWith(data, pos, word) THEN pos + Len(word) ELSE NoMatch

\* "([^\\\n]|(\\.))*?" from the character after the opening quote: the
\* lazy star closes at the first quote that is not the second character of
\* an escape; an escape is a backslash and any character but a newline
RECURSIVE StringEnd(_, _)
StringEnd(data, i) ==
    IF i >= Len(data) THEN NoMatch
    ELSE IF data[i + 1] = "\"" THEN i + 1
    ELSE IF data[i + 1] = "\\"
    THEN IF i + 1 < Len(data) /\ data[i + 2] # "\n" THEN StringEnd(data, i + 2) ELSE NoMatch
    ELSE IF data[i + 1] = "\n" THEN NoMatch
    ELSE StringEnd(data, i + 1)

t_STRING(data, pos) ==
    IF pos < Len(data) /\ data[pos + 1] = "\"" THEN StringEnd(data, pos + 1) ELSE NoMatch

t_NUMBER(data, pos) ==
    IF RunEnd(data, pos, Digit) > pos THEN RunEnd(data, pos, Digit) ELSE NoMatch

DataTypeWord == <<"D", "a", "t", "a", "T", "y", "p", "e">>

\* [a-zA-Z][a-zA-Z]*DataType: the greedy star gives back letters until
\* DataType follows, so the match ends with the last DataType of the run
t_NEW_DATATYPE(data, pos) ==
    Bind(RunEnd(data, pos, Letter), LAMBDA e :
    Bind({k \in (pos + 1)..(e - Len(DataTypeWord)) : StartsWith(data, k, DataTypeWord)}, LAMBDA starts :
       IF starts = {} THEN NoMatch
       ELSE (CHOOSE k \in starts : \A j \in starts : j <= k) + Len(DataTypeWord)))

FunctionalComplexesWord ==
    <<"f", "u", "n", "c", "t", "i", "o", "n", "a", "l", "-",
      "c", "o", "m", "p", "l", "e", "x", "e", "s">>

IntrinsicModesWord ==
    <<"i", "n", "t", "r", "i", "n", "s", "i", "c", "-", "m", "o", "d", "e", "s">>

ExtrinsicModesWord ==
    <<"e", "x", "t", "r", "i", "n", "s", "i", "c", "-", "m", "o", "d", "e", "s">>

AbstractIndividualsWord ==
    <<"a", "b", "s", "t", "r", "a", "c", "t", "-",
      "i", "n", "d", "i", "v", "i", "d", "u", "a", "l", "s">>

\* [a-z][a-zA-Z_]*[0-9]+ : no digit is in the class of the star, so the
\* star takes its longest run and at least one digit has to follow it
t_INSTANCE_NAME(data, pos) ==
    IF pos < Len(data) /\ data[pos + 1] \in Lower
    THEN Bind(RunEnd(data, pos + 1, Letter \cup {"_"}), LAMBDA r :
         Bind(RunEnd(data, r, Digit), LAMBDA d :
            IF d > r THEN d ELSE NoMatch))
    ELSE NoMatch

t_CLASS_NAME(data, pos) ==
    IF pos < Len(data) /\ data[pos + 1] \in Upper
    THEN RunEnd(data, pos + 1, Letter \cup Digit \cup {"_"})
    ELSE NoMatch

t_RELATION_NAME(data, pos) ==
    IF pos < Len(data) /\ data[pos + 1] \in Lower
    THEN RunEnd(data, pos + 1, Letter \cup {"_"})
    ELSE NoMatch

t_IDENTIFIER(data, pos) ==
    IF pos < Len(data) /\ data[pos + 1] \in Letter \cup {"_"}
    THEN RunEnd(data, pos + 1, Letter \cup Digit \cup {"_"})
    ELSE NoMatch

\* End of the line that holds position pos: data.find('\n', pos), or
\* len(data) when no newline follows
RECURSIVE LineEnd(_, _)
LineEnd(data, pos) ==
    IF pos < Len(data) /\ data[pos + 1] # "\n" THEN LineEnd(data, pos + 1) ELSE pos

\* //.*
t_COMMENT(data, pos) ==
    IF StartsWith(data, pos, <<"/", "/">>) THEN LineEnd(data, pos + 2) ELSE NoMatch

\* \n+
t_newline(data, pos) ==
    IF RunEnd(data, pos, {"\n"}) > pos THEN RunEnd(data, pos, {"\n"}) ELSE NoMatch

\* The master pattern of PLY: the rules defined by functions in the order
\* of their definition, then the rules defined by strings by decreasing
\* length of their pattern
RuleOrder ==
    <<"STRING", "NUMBER", "NEW_DATATYPE", "FUNCTIONAL_COMPLEXES", "INTRINSIC_MODES",
      "EXTRINSIC_MODES", "ABSTRACT_INDIVIDUALS", "INSTANCE_NAME", "CLASS_NAME",
      "RELATION_NAME", "IDENTIFIER", "COMMENT", "newline",
      "COMPOSITIONL", "COMPOSITIONR", "AGGREGATIONL", "AGGREGATIONR", "ASSOCIATIONLR",
      "CARDINALITY", "ASSOCIATIONL", "ASSOCIATIONR", "ASSOCIATION">>

RuleMatch(rule, data, pos) ==
    CASE rule = "STRING" -> t_STRING(data, pos)
      [] rule = "NUMBER" -> t_NUMBER(data, pos)
      [] rule = "NEW_DATATYPE" -> t_NEW_DATATYPE(data, pos)
      [] rule = "FUNCTIONAL_COMPLEXES" -> MatchWord(data, pos, FunctionalComplexesWord)
      [] rule = "INTRINSIC_MODES" -> MatchWord(data, pos, IntrinsicModesWord)
      [] rule = "EXTRINSIC_MODES" -> MatchWord(data, pos, ExtrinsicModesWord)
      [] rule = "ABSTRACT_INDIVIDUALS" -> MatchWord(data, pos, AbstractIndividualsWord)
      [] rule = "INSTANCE_NAME" -> t_INSTANCE_NAME(data, pos)
      [] rule = "CLASS_NAME" -> t_CLASS_NAME(data, pos)
      [] rule = "RELATION_NAME" -> t_RELATION_NAME(data, pos)
      [] rule = "IDENTIFIER" -> t_IDENTIFIER(data, pos)
      [] rule = "COMMENT" -> t_COMMENT(data, pos)
      [] rule = "newline" -> t_newline(data, pos)
      [] rule = "COMPOSITIONL" -> MatchWord(data, pos, <<"<", "o", ">", "-", "-">>)
      [] rule = "COMPOSITIONR" -> MatchWord(data, pos, <<"-", "-", "<", "o", ">">>)
      [] rule = "AGGREGATIONL" -> MatchWord(data, pos, <<"<", ">", "-", "-">>)
      [] rule = "AGGREGATIONR" -> MatchWord(data, pos, <<"-", "-", "<", ">">>)
      [] rule = "ASSOCIATIONLR" -> MatchWord(data, pos, <<"<", "-", "-", ">">>)
      [] rule = "CARDINALITY" -> MatchWord(data, pos, <<".", ".">>)
      [] rule = "ASSOCIATIONL" -> MatchWord(data, pos, <<"<", "-", "-">>)
      [] rule = "ASSOCIATIONR" -> MatchWord(data, pos, <<"-", "-", ">">>)
      [] rule = "ASSOCIATION" -> MatchWord(data, pos, <<"-", "-">>)

\* Index in RuleOrder of the first rule that matches at pos, 0 when none does
MasterMatch(data, pos) ==
    Bind({r \in 1..Len(RuleOrder) : RuleMatch(RuleOrder[r], data, pos) # NoMatch},
         LAMBDA hits : IF hits = {} THEN 0 ELSE CHOOSE r \in hits : \A q \in hits : r <= q)

\* reserved.get(value, default)
ReservedGet(value, default) ==
    IF DictHas(reserved, value) THEN DictGet(reserved, value) ELSE default

\* The LexToken a rule returns for the matched characters
RuleToken(rule, matched, lineno, lexpos) ==
    LET Typed(type) == [type |-> type, value |-> matched, lineno |-> lineno,
                        lexpos |-> lexpos, category |-> get_token_category(type)] IN
       CASE rule = "STRING" ->
                [type |-> "STRING", value |-> SubSeq(matched, 2, Len(matched) - 1),
                 lineno |-> lineno, lexpos |-> lexpos]
         [] rule = "NUMBER" ->
                [type |-> "NUMBER", value |-> IntOf(matched),
                 lineno |-> lineno, lexpos |-> lexpos]
         [] rule = "NEW_DATATYPE" -> Typed(ReservedGet(Str(matched), "NEW_DATATYPE"))
         [] rule \in {"FUNCTIONAL_COMPLEXES", "INTRINSIC_MODES", "EXTRINSIC_MODES",
                      "ABSTRACT_INDIVIDUALS"} ->
                Typed(ReservedGet(Str(matched), "IDENTIFIER"))
         [] rule = "INSTANCE_NAME" -> Typed("INSTANCE_NAME")
         [] rule = "CLASS_NAME" -> Typed(ReservedGet(Str(matched), "CLASS_NAME"))
         [] rule = "RELATION_NAME" -> Typed(ReservedGet(Str(matched), "RELATION_NAME"))
         [] rule = "IDENTIFIER" -> Typed(ReservedGet(Str(matched), "IDENTIFIER"))
         [] OTHER ->
                [type |-> rule, value |-> matched, lineno |-> lineno, lexpos |-> lexpos]

(***************************************************************************)
(* MyLexer: the instance and its operations.  lexpos and lineno are the    *)
(* fields of the PLY lexer object held in self.lexer.                      *)
(***************************************************************************)
\* MyLexer.__init__ followed by build()
NewMyLexer ==
    [errors |-> <<>>,
     token_count |-> 0,
     category_counts |-> <<>>,
     filename |-> "None",
     input_text |-> None,
     lexpos |-> 0,
     lineno |-> 1]

\* A reset that leaves the line counter of the PLY lexer where it stands
reset_without_lineno(lx) ==
    [lx EXCEPT !.errors = <<>>,
               !.token_count = 0,
               !.category_counts = <<>>]

\* MyLexer.reset
reset(lx) ==
    [lx EXCEPT !.errors = <<>>,
               !.token_count = 0,
               !.category_counts = <<>>,
               !.lineno = 1]

\* MyLexer.input: reset, then lexer.input(data), which rewinds lexpos only
input(lx, data, filename) ==
    [reset(lx) EXCEPT !.filename = filename,
                      !.input_text = data,
                      !.lexpos = 0]

\* data.rfind('\n', 0, pos): the last newline before pos, -1 when none
LastNewlineBefore(data, pos) ==
    Bind({i \in 0..(pos - 1) : data[i + 1] = "\n"}, LAMBDA found :
       IF found = {} THEN -1 ELSE CHOOSE i \in found : \A j \in found : j <= i)

\* MyLexer.find_column
find_column(lx, pos) ==
    Bind(LastNewlineBefore(lx.input_text, pos) + 1, LAMBDA line_start :
       (pos - line_start) + 1)

\* MyLexer.get_error_context
get_error_context(lx, pos) ==
    Bind(LastNewlineBefore(lx.input_text, pos) + 1, LAMBDA line_start :
    Bind(LineEnd(lx.input_text, pos), LAMBDA line_end :
       SubSeq(lx.input_text, line_start + 1, line_end)))

\* MyLexer.format_error_pointer: ' ' * (column - 1) + '^'
format_error_pointer(lx, pos) ==
    [i \in 1..find_column(lx, pos) |-> IF i = find_column(lx, pos) THEN "^" ELSE " "]

\* An error rule that records nothing about the character next to the
\* illegal one and skips it too: lexer.skip(2)
t_error_skip_two(lx) ==
    Bind(lx.lexpos, LAMBDA pos :
    Bind(find_column(lx, pos), LAMBDA column :
    Bind([type |-> "IllegalCharacter",
             character |-> lx.input_text[pos + 1],
             line |-> lx.lineno,
             column |-> column,
             line_text |-> get_error_context(lx, pos),
             pointer |-> format_error_pointer(lx, pos),
             filename |-> lx.filename,
             message |-> "Illegal character '" \o lx.input_text[pos + 1] \o "' at line "
                         \o ToString(lx.lineno) \o ", column " \o ToString(column)], LAMBDA error_info :
       [lx EXCEPT !.errors = Append(@, error_info),
                  !.lexpos = pos + 2])))

\* MyLexer.t_error for the character at lexpos, with lexer.skip(1)
t_error(lx) ==
    Bind(lx.lexpos, LAMBDA pos :
    Bind(find_column(lx, pos), LAMBDA column :
    Bind([type |-> "IllegalCharacter",
             character |-> lx.input_text[pos + 1],
             line |-> lx.lineno,
             column |-> column,
             line_text |-> get_error_context(lx, pos),
             pointer |-> format_error_pointer(lx, pos),
             filename |-> lx.filename,
             message |-> "Illegal character '" \o lx.input_text[pos + 1] \o "' at line "
                         \o ToString(lx.lineno) \o ", column " \o ToString(column)], LAMBDA error_info :
       [lx EXCEPT !.errors = Append(@, error_info),
                  !.lexpos = pos + 1])))

\* lexer.token() of PLY: skip the t_ignore characters, try the master
\* pattern, then the literals, then t_error; rules that return nothing
\* (comment, newline, error) make the scan go on.  tok is None at the end.
RECURSIVE PlyToken(_)
PlyToken(lx) ==
    Bind(lx.input_text, LAMBDA data :
    Bind(lx.lexpos, LAMBDA pos :
       IF pos >= Len(data) THEN [lexer |-> lx, tok |-> None]
       ELSE IF data[pos + 1] \in {" ", "\t"} THEN PlyToken([lx EXCEPT !.lexpos = pos + 1])
       ELSE Bind(MasterMatch(data, pos), LAMBDA r :
       IF r # 0
       THEN Bind(RuleMatch(RuleOrder[r], data, pos), LAMBDA e :
            IF RuleOrder[r] = "COMMENT" THEN PlyToken([lx EXCEPT !.lexpos = e])
            ELSE IF RuleOrder[r] = "newline"
            THEN PlyToken([lx EXCEPT !.lexpos = e, !.lineno = @ + (e - pos)])
            ELSE [lexer |-> [lx EXCEPT !.lexpos = e],
                  tok |-> RuleToken(RuleOrder[r], SubSeq(data, pos + 1, e), lx.lineno, pos)])
       ELSE IF Contains(literals, data[pos + 1])
       THEN [lexer |-> [lx EXCEPT !.lexpos = pos + 1],
             tok |-> [type |-> data[pos + 1], value |-> <<data[pos + 1]>>,
                      lineno |-> lx.lineno, lexpos |-> pos]]
       ELSE PlyToken(t_error(lx)))))

\* self.category_counts[category] = self.category_counts.get(category, 0) + 1
CountCategory(counts, category) ==
    DictPut(counts, category,
            IF DictHas(counts, category) THEN DictGet(counts, category) + 1 ELSE 1)

\* MyLexer.token
token(lx) ==
    Bind(PlyToken(lx), LAMBDA r :
         IF r.tok # None
         THEN [lexer |-> [r.lexer EXCEPT
                             !.token_count = @ + 1,
                             !.category_counts =
                                 CountCategory(@, get_token_category(r.tok.type))],
               tok |-> r.tok]
         ELSE r)

\* The loop of MyLexer.tokenize, whose local list is tokens
RECURSIVE TokenLoop(_, _)
TokenLoop(lx, tokens) ==
    Bind(token(lx), LAMBDA r :
         IF r.tok = None THEN [lexer |-> r.lexer, tokens |-> tokens]
         ELSE TokenLoop(r.lexer, Append(tokens, r.tok)))

\* MyLexer.tokenize
tokenize(lx, data) == TokenLoop(input(lx, data, "None"), <<>>)

\* The tokens the PLY parser asks of self.lexer.lexer, one at a time and
\* not through MyLexer.token: tokens[i] is the i-th token, lexers[i] the
\* lexer once it was read, lexer the lexer at the end of the input
RECURSIVE PlyTokenLoop(_, _, _)
PlyTokenLoop(lx, tokens, lexers) ==
    Bind(PlyToken(lx), LAMBDA r :
         IF r.tok = None THEN [lexer |-> r.lexer, tokens |-> tokens, lexers |-> lexers]
         ELSE PlyTokenLoop(r.lexer, Append(tokens, r.tok), Append(lexers, r.lexer)))

(***************************************************************************)
(* MyParser: the grammar.  The productions are those of the docstrings of  *)
(* the p_ functions; each operator recognises its production from token    *)
(* i of toks and gives Ok(next position, value of p[0]) or Fail(position   *)
(* of the first token that no production accepts).  The one conflict of    *)
(* the grammar, '[' after the type of an attribute, is resolved by the     *)
(* shift as PLY does.                                                      *)
(***************************************************************************)
Ok(pos, val) == [ok |-> TRUE, pos |-> pos, val |-> val]

Fail(pos) == [ok |-> FALSE, pos |-> pos, val |-> None]

\* Type of token i, '$end' after the last one
TokType(toks, i) == IF i <= Len(toks) THEN toks[i].type ELSE "$end"

\* p[i] of a word token, as the str it is stored as in the AST
Val(toks, i) == Str(toks[i].value)

ClassStereotypeTokens == ToSet(DictValues(class_stereotypes)) \cup {"KEYWORD_RELATOR"}

RelationStereotypeTokens == ToSet(DictValues(relation_stereotypes))

RelationOperatorLeft ==
    {"ASSOCIATION", "ASSOCIATIONL", "ASSOCIATIONLR", "AGGREGATIONL", "COMPOSITIONL"}

RelationOperatorRight ==
    {"ASSOCIATION", "ASSOCIATIONR", "ASSOCIATIONLR", "AGGREGATIONR", "COMPOSITIONR"}

TypeReferenceTokens == {"IDENTIFIER"} \cup ToSet(DictValues(data_types))

MetaAttributeTokens == ToSet(DictValues(meta_attributes))

\* A terminal of the given type: its value, as str
Terminal(toks, i, types) ==
    IF TokType(toks, i) \in types THEN Ok(i + 1, Val(toks, i)) ELSE Fail(i)

\* identifier_list : IDENTIFIER | identifier_list ',' IDENTIFIER
RECURSIVE IdentifierListRest(_, _, _)
IdentifierListRest(toks, i, acc) ==
    IF TokType(toks, i) # "," THEN Ok(i, acc)
    ELSE IF TokType(toks, i + 1) # "IDENTIFIER" THEN Fail(i + 1)
    ELSE IdentifierListRest(toks, i + 2, Append(acc, Val(toks, i + 1)))

p_identifier_list(toks, i) ==
    IF TokType(toks, i) = "IDENTIFIER"
    THEN IdentifierListRest(toks, i + 1, <<Val(toks, i)>>)
    ELSE Fail(i)

\* enum_values : IDENTIFIER | enum_values ',' IDENTIFIER
p_enum_values(toks, i) == p_identifier_list(toks, i)

\* specialization : KEYWORD_SPECIALIZES identifier_list
p_specialization(toks, i) ==
    IF TokType(toks, i) # "KEYWORD_SPECIALIZES" THEN Fail(i)
    ELSE Bind(p_identifier_list(toks, i + 1), LAMBDA r :
            IF r.ok THEN Ok(r.pos, Specialization(r.val)) ELSE r)

\* An optional specialization: None when the next token does not start one
OptSpecialization(toks, i) ==
    IF TokType(toks, i) = "KEYWORD_SPECIALIZES" THEN p_specialization(toks, i) ELSE Ok(i, None)

\* cardinality_range : NUMBER | '*'
p_cardinality_range(toks, i) ==
    IF TokType(toks, i) = "NUMBER" THEN Ok(i + 1, toks[i].value)
    ELSE IF TokType(toks, i) = "*" THEN Ok(i + 1, Star)
    ELSE Fail(i)

\* cardinality : '[' cardinality_range ']'
\*             | '[' cardinality_range CARDINALITY cardinality_range ']'
p_cardinality(toks, i) ==
    IF TokType(toks, i) # "[" THEN Fail(i)
    ELSE Bind(p_cardinality_range(toks, i + 1), LAMBDA lo :
         Bind(p_cardinality_range(toks, lo.pos + 1), LAMBDA hi :
            IF ~lo.ok THEN lo
            ELSE IF TokType(toks, lo.pos) = "]"
            THEN Ok(lo.pos + 1, CardinalityNode(lo.val, lo.val))
            ELSE IF TokType(toks, lo.pos) # "CARDINALITY" THEN Fail(lo.pos)
            ELSE IF ~hi.ok THEN hi
            ELSE IF TokType(toks, hi.pos) # "]" THEN Fail(hi.pos)
            ELSE Ok(hi.pos + 1, CardinalityNode(lo.val, hi.val))))

\* meta_attribute_list : meta_attribute | meta_attribute_list ',' meta_attribute
RECURSIVE MetaAttributeListRest(_, _, _)
MetaAttributeListRest(toks, i, acc) ==
    IF TokType(toks, i) # "," THEN Ok(i, acc)
    ELSE IF TokType(toks, i + 1) \notin MetaAttributeTokens THEN Fail(i + 1)
    ELSE MetaAttributeListRest(toks, i + 2, Append(acc, Val(toks, i + 1)))

\* meta_attributes : '{' meta_attribute_list '}'
p_meta_attributes(toks, i) ==
    IF TokType(toks, i) # "{" THEN Fail(i)
    ELSE IF TokType(toks, i + 1) \notin MetaAttributeTokens THEN Fail(i + 1)
    ELSE Bind(MetaAttributeListRest(toks, i + 2, <<Val(toks, i + 1)>>), LAMBDA r :
            IF ~r.ok THEN r
            ELSE IF TokType(toks, r.pos) # "}" THEN Fail(r.pos)
            ELSE Ok(r.pos + 1, MetaAttributes(r.val)))

\* attribute : IDENTIFIER ':' type_reference
\*           | IDENTIFIER ':' type_reference cardinality
\*           | IDENTIFIER ':' type_reference meta_attributes
\*           | IDENTIFIER ':' type_reference cardinality meta_attributes
p_attribute(toks, i) ==
    IF TokType(toks, i) # "IDENTIFIER" THEN Fail(i)
    ELSE IF TokType(toks, i + 1) # ":" THEN Fail(i + 1)
    ELSE IF TokType(toks, i + 2) \notin TypeReferenceTokens THEN Fail(i + 2)
    ELSE Bind(IF TokType(toks, i + 3) = "[" THEN p_cardinality(toks, i + 3)
                     ELSE Ok(i + 3, None), LAMBDA card :
         Bind(IF TokType(toks, card.pos) = "{" THEN p_meta_attributes(toks, card.pos)
                     ELSE Ok(card.pos, None), LAMBDA meta :
            IF ~card.ok THEN card
            ELSE IF ~meta.ok THEN meta
            ELSE Ok(meta.pos, Attribute(Val(toks, i), Val(toks, i + 2), card.val, meta.val))))

\* relation_stereotype_optional : '@' relation_stereotype | empty
p_relation_stereotype_optional(toks, i) ==
    IF TokType(toks, i) # "@" THEN Ok(i, "None")
    ELSE Terminal(toks, i + 1, RelationStereotypeTokens)

\* The rest of an internal relation after its left operator at token i - 1:
\*   IDENTIFIER relation_operator_right cardinality IDENTIFIER   (named)
\*   cardinality IDENTIFIER                                      (unnamed)
InternalRelationTail(toks, i, stereotype, first_cardinality, operator_left) ==
    IF TokType(toks, i) = "IDENTIFIER"
    THEN Bind(p_cardinality(toks, i + 2), LAMBDA card :
            IF TokType(toks, i + 1) \notin RelationOperatorRight THEN Fail(i + 1)
            ELSE IF ~card.ok THEN card
            ELSE IF TokType(toks, card.pos) # "IDENTIFIER" THEN Fail(card.pos)
            ELSE Ok(card.pos + 1,
                    InternalRelation(stereotype, first_cardinality, operator_left,
                                     Val(toks, i), Val(toks, i + 1), card.val,
                                     Val(toks, card.pos))))
    ELSE IF TokType(toks, i) = "["
    THEN Bind(p_cardinality(toks, i), LAMBDA card :
            IF ~card.ok THEN card
            ELSE IF TokType(toks, card.pos) # "IDENTIFIER" THEN Fail(card.pos)
            ELSE Ok(card.pos + 1,
                    InternalRelation(stereotype, first_cardinality, operator_left,
                                     "None", "None", card.val, Val(toks, card.pos))))
    ELSE Fail(i)

\* internal_relation : the four formats of p_internal_relation
p_internal_relation(toks, i) ==
    Bind(p_relation_stereotype_optional(toks, i), LAMBDA st :
    Bind(p_cardinality(toks, st.pos), LAMBDA card :
       IF ~st.ok THEN st
       ELSE IF TokType(toks, st.pos) \in RelationOperatorLeft
       THEN InternalRelationTail(toks, st.pos + 1, st.val, None, Val(toks, st.pos))
       ELSE IF TokType(toks, st.pos) # "[" THEN Fail(st.pos)
       ELSE IF ~card.ok THEN card
       ELSE IF TokType(toks, card.pos) \notin RelationOperatorLeft THEN Fail(card.pos)
       ELSE InternalRelationTail(toks, card.pos + 1, st.val, card.val, Val(toks, card.pos))))

\* class_body_item : attribute | internal_relation
p_class_body_item(toks, i) ==
    IF TokType(toks, i) = "IDENTIFIER" THEN p_attribute(toks, i)
    ELSE p_internal_relation(toks, i)

\* class_body : class_body_item | class_body class_body_item   up to the '}'
RECURSIVE ClassBodyRest(_, _, _)
ClassBodyRest(toks, i, acc) ==
    IF TokType(toks, i) = "}" THEN Ok(i + 1, List(acc))
    ELSE Bind(p_class_body_item(toks, i), LAMBDA r :
            IF r.ok THEN ClassBodyRest(toks, r.pos, Append(acc, r.val)) ELSE r)

\* datatype_body : attribute | datatype_body attribute   up to the '}'
RECURSIVE DatatypeBodyRest(_, _, _)
DatatypeBodyRest(toks, i, acc) ==
    IF TokType(toks, i) = "}" THEN Ok(i + 1, List(acc))
    ELSE Bind(p_attribute(toks, i), LAMBDA r :
            IF r.ok THEN DatatypeBodyRest(toks, r.pos, Append(acc, r.val)) ELSE r)

\* The optional body of a class or datatype after its name and
\* specialization: absent (None), '{' '}' (an empty list) or '{' items '}'
OptClassBody(toks, i) ==
    IF TokType(toks, i) # "{" THEN Ok(i, None)
    ELSE IF TokType(toks, i + 1) = "}" THEN Ok(i + 2, List(<<>>))
    ELSE Bind(p_class_body_item(toks, i + 1), LAMBDA first :
            IF first.ok THEN ClassBodyRest(toks, first.pos, <<first.val>>) ELSE first)

OptDatatypeBody(toks, i) ==
    IF TokType(toks, i) # "{" THEN Ok(i, None)
    ELSE IF TokType(toks, i + 1) = "}" THEN Ok(i + 2, List(<<>>))
    ELSE Bind(p_attribute(toks, i + 1), LAMBDA first :
            IF first.ok THEN DatatypeBodyRest(toks, first.pos, <<first.val>>) ELSE first)

\* class_definition : class_stereotype IDENTIFIER [specialization] ['{' [class_body] '}']
p_class_definition(toks, i) ==
    IF TokType(toks, i) \notin ClassStereotypeTokens THEN Fail(i)
    ELSE IF TokType(toks, i + 1) # "IDENTIFIER" THEN Fail(i + 1)
    ELSE Bind(OptSpecialization(toks, i + 2), LAMBDA spec :
         Bind(OptClassBody(toks, spec.pos), LAMBDA body :
            IF ~spec.ok THEN spec
            ELSE IF ~body.ok THEN body
            ELSE Ok(body.pos, ClassDef(Val(toks, i), Val(toks, i + 1), spec.val, body.val))))

\* datatype_definition : KEYWORD_DATATYPE IDENTIFIER [specialization] ['{' [datatype_body] '}']
p_datatype_definition(toks, i) ==
    IF TokType(toks, i) # "KEYWORD_DATATYPE" THEN Fail(i)
    ELSE IF TokType(toks, i + 1) # "IDENTIFIER" THEN Fail(i + 1)
    ELSE Bind(OptSpecialization(toks, i + 2), LAMBDA spec :
         Bind(OptDatatypeBody(toks, spec.pos), LAMBDA body :
            IF ~spec.ok THEN spec
            ELSE IF ~body.ok THEN body
            ELSE Ok(body.pos, DatatypeDef(Val(toks, i + 1), spec.val, body.val))))

\* enum_definition : KEYWORD_ENUM IDENTIFIER [specialization] '{' enum_values '}'
p_enum_definition(toks, i) ==
    IF TokType(toks, i) # "KEYWORD_ENUM" THEN Fail(i)
    ELSE IF TokType(toks, i + 1) # "IDENTIFIER" THEN Fail(i + 1)
    ELSE Bind(OptSpecialization(toks, i + 2), LAMBDA spec :
         Bind(p_enum_values(toks, spec.pos + 1), LAMBDA values :
            IF ~spec.ok THEN spec
            ELSE IF TokType(toks, spec.pos) # "{" THEN Fail(spec.pos)
            ELSE IF ~values.ok THEN values
            ELSE IF TokType(toks, values.pos) # "}" THEN Fail(values.pos)
            ELSE Ok(values.pos + 1, EnumDef(Val(toks, i + 1), spec.val, values.val))))

\* genset_modifiers : KEYWORD_DISJOINT KEYWORD_COMPLETE | KEYWORD_COMPLETE KEYWORD_DISJOINT
\*                  | KEYWORD_DISJOINT | KEYWORD_COMPLETE | empty
p_genset_modifiers(toks, i) ==
    Bind(TokType(toks, i), LAMBDA a :
    Bind(TokType(toks, i + 1), LAMBDA b :
       IF (a = "KEYWORD_DISJOINT" /\ b = "KEYWORD_COMPLETE")
          \/ (a = "KEYWORD_COMPLETE" /\ b = "KEYWORD_DISJOINT")
       THEN Ok(i + 2, [disjoint |-> TRUE, complete |-> TRUE])
       ELSE IF a = "KEYWORD_DISJOINT" THEN Ok(i + 1, [disjoint |-> TRUE, complete |-> FALSE])
       ELSE IF a = "KEYWORD_COMPLETE" THEN Ok(i + 1, [disjoint |-> FALSE, complete |-> TRUE])
       ELSE Ok(i, [disjoint |-> FALSE, complete |-> FALSE])))

\* genset_body : KEYWORD_GENERAL IDENTIFIER [KEYWORD_CATEGORIZER IDENTIFIER]
\*               KEYWORD_SPECIFICS identifier_list
p_genset_body(toks, i) ==
    IF TokType(toks, i) # "KEYWORD_GENERAL" THEN Fail(i)
    ELSE IF TokType(toks, i + 1) # "IDENTIFIER" THEN Fail(i + 1)
    ELSE IF TokType(toks, i + 2) = "KEYWORD_SPECIFICS"
    THEN Bind(p_identifier_list(toks, i + 3), LAMBDA specifics :
            IF ~specifics.ok THEN specifics
            ELSE Ok(specifics.pos, [general |-> Val(toks, i + 1),
                                    categorizer |-> "None",
                                    specifics |-> specifics.val]))
    ELSE IF TokType(toks, i + 2) # "KEYWORD_CATEGORIZER" THEN Fail(i + 2)
    ELSE IF TokType(toks, i + 3) # "IDENTIFIER" THEN Fail(i + 3)
    ELSE IF TokType(toks, i + 4) # "KEYWORD_SPECIFICS" THEN Fail(i + 4)
    ELSE Bind(p_identifier_list(toks, i + 5), LAMBDA specifics :
            IF ~specifics.ok THEN specifics
            ELSE Ok(specifics.pos, [general |-> Val(toks, i + 1),
                                    categorizer |-> Val(toks, i + 3),
                                    specifics |-> specifics.val]))

\* genset_block : genset_modifiers KEYWORD_GENSET IDENTIFIER '{' genset_body '}'
p_genset_block(toks, i, modifiers, name) ==
    Bind(p_genset_body(toks, i + 1), LAMBDA body :
       IF TokType(toks, i) # "{" THEN Fail(i)
       ELSE IF ~body.ok THEN body
       ELSE IF TokType(toks, body.pos) # "}" THEN Fail(body.pos)
       ELSE Ok(body.pos + 1,
               GensetDef(name, modifiers.disjoint, modifiers.complete,
                         body.val.general, body.val.categorizer, body.val.specifics)))

\* genset_short : genset_modifiers KEYWORD_GENSET IDENTIFIER KEYWORD_WHERE
\*                identifier_list KEYWORD_SPECIALIZES IDENTIFIER
p_genset_short(toks, i, modifiers, name) ==
    Bind(p_identifier_list(toks, i + 1), LAMBDA specifics :
       IF TokType(toks, i) # "KEYWORD_WHERE" THEN Fail(i)
       ELSE IF ~specifics.ok THEN specifics
       ELSE IF TokType(toks, specifics.pos) # "KEYWORD_SPECIALIZES" THEN Fail(specifics.pos)
       ELSE IF TokType(toks, specifics.pos + 1) # "IDENTIFIER" THEN Fail(specifics.pos + 1)
       ELSE Ok(specifics.pos + 2,
               GensetDef(name, modifiers.disjoint, modifiers.complete,
                         Val(toks, specifics.pos + 1), "None", specifics.val)))

\* genset_definition : genset_block | genset_short
p_genset_definition(toks, i) ==
    Bind(p_genset_modifiers(toks, i), LAMBDA modifiers :
    Bind(modifiers.pos, LAMBDA j :
       IF TokType(toks, j) # "KEYWORD_GENSET" THEN Fail(j)
       ELSE IF TokType(toks, j + 1) # "IDENTIFIER" THEN Fail(j + 1)
       ELSE IF TokType(toks, j + 2) = "KEYWORD_WHERE"
       THEN p_genset_short(toks, j + 2, modifiers.val, Val(toks, j + 1))
       ELSE p_genset_block(toks, j + 2, modifiers.val, Val(toks, j + 1))))

\* external_relation : relation_stereotype_optional KEYWORD_RELATION IDENTIFIER [cardinality]
\*                     relation_operator_left IDENTIFIER relation_operator_right
\*                     cardinality IDENTIFIER
p_external_relation(toks, i) ==
    Bind(p_relation_stereotype_optional(toks, i), LAMBDA st :
    Bind(st.pos, LAMBDA j :
    Bind(IF TokType(toks, j + 2) = "[" THEN p_cardinality(toks, j + 2)
                 ELSE Ok(j + 2, None), LAMBDA first :
    Bind(first.pos, LAMBDA k :
    Bind(p_cardinality(toks, k + 3), LAMBDA second :
       IF ~st.ok THEN st
       ELSE IF TokType(toks, j) # "KEYWORD_RELATION" THEN Fail(j)
       ELSE IF TokType(toks, j + 1) # "IDENTIFIER" THEN Fail(j + 1)
       ELSE IF ~first.ok THEN first
       ELSE IF TokType(toks, k) \notin RelationOperatorLeft THEN Fail(k)
       ELSE IF TokType(toks, k + 1) # "IDENTIFIER" THEN Fail(k + 1)
       ELSE IF TokType(toks, k + 2) \notin RelationOperatorRight THEN Fail(k + 2)
       ELSE IF ~second.ok THEN second
       ELSE IF TokType(toks, second.pos) # "IDENTIFIER" THEN Fail(second.pos)
       ELSE Ok(second.pos + 1,
               ExternalRelation(st.val, Val(toks, j + 1), first.val, Val(toks, k),
                                Val(toks, k + 1), Val(toks, k + 2), second.val,
                                Val(toks, second.pos))))))))

\* definition : class_definition | datatype_definition | enum_definition
\*            | genset_definition | external_relation
p_definition(toks, i) ==
    Bind(TokType(toks, i), LAMBDA t :
       IF t \in ClassStereotypeTokens THEN p_class_definition(toks, i)
       ELSE IF t = "KEYWORD_DATATYPE" THEN p_datatype_definition(toks, i)
       ELSE IF t = "KEYWORD_ENUM" THEN p_enum_definition(toks, i)
       ELSE IF t \in {"KEYWORD_DISJOINT", "KEYWORD_COMPLETE", "KEYWORD_GENSET"}
       THEN p_genset_definition(toks, i)
       ELSE IF t \in {"@", "KEYWORD_RELATION"} THEN p_external_relation(toks, i)
       ELSE Fail(i))

\* definition_list : definition_list definition | definition   up to '$end'
RECURSIVE p_definition_list(_, _, _)
p_definition_list(toks, i, acc) ==
    IF TokType(toks, i) = "$end" THEN Ok(i, acc)
    ELSE Bind(p_definition(toks, i), LAMBDA r :
            IF r.ok THEN p_definition_list(toks, r.pos, Append(acc, r.val)) ELSE r)

\* package_content : definition_list | empty
p_package_content(toks, i) == p_definition_list(toks, i, <<>>)

\* package_declaration : KEYWORD_PACKAGE IDENTIFIER
p_package_declaration(toks, i) ==
    IF TokType(toks, i) # "KEYWORD_PACKAGE" THEN Fail(i)
    ELSE IF TokType(toks, i + 1) # "IDENTIFIER" THEN Fail(i + 1)
    ELSE Ok(i + 2, PackageDeclaration(Val(toks, i + 1)))

\* import_statement : KEYWORD_IMPORT IDENTIFIER
p_import_statement(toks, i) ==
    IF TokType(toks, i) # "KEYWORD_IMPORT" THEN Fail(i)
    ELSE IF TokType(toks, i + 1) # "IDENTIFIER" THEN Fail(i + 1)
    ELSE Ok(i + 2, ImportStatement(Val(toks, i + 1)))

\* import_list : import_list import_statement | import_statement
RECURSIVE p_import_list(_, _, _)
p_import_list(toks, i, acc) ==
    IF TokType(toks, i) # "KEYWORD_IMPORT" THEN Ok(i, acc)
    ELSE Bind(p_import_statement(toks, i), LAMBDA r :
            IF r.ok THEN p_import_list(toks, r.pos, Append(acc, r.val)) ELSE r)

\* import_section : import_list | empty
p_import_section(toks, i) == p_import_list(toks, i, <<>>)

\* tonto_file : import_section package_declaration package_content
p_tonto_file(toks, i) ==
    Bind(p_import_section(toks, i), LAMBDA imports :
    Bind(p_package_declaration(toks, imports.pos), LAMBDA package :
    Bind(p_package_content(toks, package.pos), LAMBDA content :
       IF ~imports.ok THEN imports
       ELSE IF ~package.ok THEN package
       ELSE IF ~content.ok THEN content
       ELSE Ok(content.pos, TontoFile(imports.val, package.val, content.val)))))

(***************************************************************************)
(* MyParser: the instance, the error handler and parse                     *)
(***************************************************************************)
LowerLetters ==
    <<"a", "b", "c", "d", "e", "f", "g", "h", "i", "j", "k", "l", "m",
      "n", "o", "p", "q", "r", "s", "t", "u", "v", "w", "x", "y", "z">>

UpperLetters ==
    <<"A", "B", "C", "D", "E", "F", "G", "H", "I", "J", "K", "L", "M",
      "N", "O", "P", "Q", "R", "S", "T", "U", "V", "W", "X", "Y", "Z">>

\* str.lower() of one character
LowerChar(c) ==
    IF c \in Upper
    THEN LowerLetters[CHOOSE i \in 1..Len(UpperLetters) : UpperLetters[i] = c]
    ELSE c

\* MyParser.KEYWORD_TYPOS
KEYWORD_TYPOS ==
    <<[key |-> "packge", val |-> "package"],
      [key |-> "pakage", val |-> "package"],
      [key |-> "pacakge", val |-> "package"],
      [key |-> "imprt", val |-> "import"],
      [key |-> "impor", val |-> "import"],
      [key |-> "knd", val |-> "kind"],
      [key |-> "knid", val |-> "kind"],
      [key |-> "subknd", val |-> "subkind"],
      [key |-> "subknid", val |-> "subkind"],
      [key |-> "specialies", val |-> "specializes"],
      [key |-> "specalizes", val |-> "specializes"],
      [key |-> "specialzes", val |-> "specializes"],
      [key |-> "dattype", val |-> "datatype"],
      [key |-> "datatyp", val |-> "datatype"],
      [key |-> "dataatype", val |-> "datatype"],
      [key |-> "enun", val |-> "enum"],
      [key |-> "enuum", val |-> "enum"],
      [key |-> "gensett", val |-> "genset"],
      [key |-> "gense", val |-> "genset"],
      [key |-> "disjont", val |-> "disjoint"],
      [key |-> "disjoin", val |-> "disjoint"],
      [key |-> "complet", val |-> "complete"],
      [key |-> "complte", val |-> "complete"],
      [key |-> "reltor", val |-> "relator"],
      [key |-> "realtor", val |-> "relator"],
      [key |-> "matrial", val |-> "material"],
      [key |-> "materail", val |-> "material"],
      [key |-> "medation", val |-> "mediation"],
      [key |-> "meidation", val |-> "mediation"],
      [key |-> "genral", val |-> "general"],
      [key |-> "generel", val |-> "general"],
      [key |-> "specifcs", val |-> "specifics"],
      [key |-> "specfics", val |-> "specifics"]>>

\* MyParser.__init__
NewMyParser == [errors |-> <<>>, filename |-> "None"]

\* str(token_value).lower() if token_value else ''  for the token p
TokenLower(p) ==
    IF p.type = "NUMBER"
    THEN (IF p.value = 0 THEN "" ELSE ToString(p.value))
    ELSE Str(MapSeq(LowerChar, p.value))

\* MyParser._get_recommendation.  A value of the typo table is answered
\* from the table.  Any other value reaches the first loop, whose first
\* test calls self._is_similar: MyParser defines no such method, so the
\* call raises AttributeError and nothing after it runs.
_get_recommendation(p) ==
    IF DictHas(KEYWORD_TYPOS, TokenLower(p))
    THEN [raised |-> FALSE,
          value |-> "Did you mean '" \o DictGet(KEYWORD_TYPOS, TokenLower(p)) \o "'?"]
    ELSE [raised |-> TRUE, value |-> "None"]

\* The line of the record of an error at the end of the file ('EOF')
EOFLine == 0

\* self.filename or '<unknown>'
FilenameOrUnknown(ps) == IF ps.filename = "None" THEN "<unknown>" ELSE ps.filename

\* MyParser.p_error(p) for a token p, with the lexer it came from.  The
\* list of expected tokens is read from the LALR table and is left out of
\* the record and of the message.
p_error(ps, lx, p) ==
    Bind(_get_recommendation(p), LAMBDA recommendation :
    Bind([type |-> "SyntaxError",
             token |-> p.value,
             token_type |-> p.type,
             line |-> p.lineno,
             column |-> find_column(lx, p.lexpos),
             line_text |-> get_error_context(lx, p.lexpos),
             pointer |-> format_error_pointer(lx, p.lexpos),
             filename |-> FilenameOrUnknown(ps),
             message |-> "Unexpected token '" \o Str(p.value) \o "' (type: " \o p.type \o ")",
             recommendation |-> recommendation.value], LAMBDA error_info :
       IF recommendation.raised
       THEN [parser |-> ps, raised |-> TRUE]
       ELSE [parser |-> [ps EXCEPT !.errors = Append(@, error_info)], raised |-> FALSE]))

\* MyParser.p_error(None): the error at the end of the file
p_error_eof(ps) ==
    [ps EXCEPT !.errors = Append(@,
        [type |-> "SyntaxError",
         token |-> <<"E", "O", "F">>,
         token_type |-> "EOF",
         line |-> EOFLine,
         column |-> 0,
         line_text |-> <<>>,
         pointer |-> <<>>,
         filename |-> FilenameOrUnknown(ps),
         message |-> "Unexpected end of file. Check for unclosed braces or incomplete statements.",
         recommendation |-> "Ensure all '{' have matching '}' and all statements are complete."])]

\* yacc.error_count: the shifts after an error during which p_error is not
\* called again
error_count == 3

\* LRParser.parse of PLY for a grammar without error productions, from
\* state 0 at token start with errorcount as it stands.  A token that no
\* production accepts is an error: p_error is called when errorcount is 0,
\* errorcount becomes error_count, the stack is rolled back to state 0,
\* the token is dropped and the parse goes on with the next one; every
\* shifted token takes one off errorcount.  An error at the end of the
\* input ends the parse without a result.
RECURSIVE YaccParse(_, _, _, _, _)
YaccParse(ps, lx, toks, start, errorcount) ==
    Bind(p_tonto_file(toks, start), LAMBDA r :
    Bind(r.pos - start, LAMBDA shifted :
    Bind(IF errorcount > shifted THEN errorcount - shifted ELSE 0, LAMBDA count :
    Bind(p_error(ps, lx, toks[r.pos]), LAMBDA handled :
       IF r.ok
       THEN [parser |-> ps, result |-> r.val, raised |-> FALSE, read |-> Len(toks) + 1]
       ELSE IF r.pos > Len(toks)
       THEN [parser |-> IF count = 0 THEN p_error_eof(ps) ELSE ps,
             result |-> None, raised |-> FALSE, read |-> Len(toks) + 1]
       ELSE IF count > 0 THEN YaccParse(ps, lx, toks, r.pos + 1, error_count)
       ELSE IF handled.raised
       THEN [parser |-> ps, result |-> None, raised |-> TRUE, read |-> r.pos]
       ELSE YaccParse(handled.parser, lx, toks, r.pos + 1, error_count)))))

\* MyParser.parse(data, filename) on the parser ps and its lexer lx.  The
\* error list of the parser is left as it is.  raised: an exception left
\* the call, and the lexer stays where the parser stopped reading.
parse(ps, lx, data, filename) ==
    Bind(input(lx, data, filename), LAMBDA fed :
    Bind(PlyTokenLoop(fed, <<>>, <<>>), LAMBDA scan :
    Bind(YaccParse([ps EXCEPT !.filename = filename], fed, scan.tokens, 1, 0), LAMBDA run :
       [parser |-> run.parser,
        lexer |-> IF run.read > Len(scan.tokens) THEN scan.lexer ELSE scan.lexers[run.read],
        result |-> run.result,
        raised |-> run.raised])))

(***************************************************************************)
(* ParserAPI                                                               *)
(***************************************************************************)
\* ParserAPI.__init__
NewParserAPI == [lexer |-> NewMyLexer, parser |-> NewMyParser, semantic |-> NewParserSemantic]

\* d.get(key, default)
GetOr(d, key, default) == IF key \in DOMAIN d THEN d[key] ELSE default

\* The entry of the token list of the answer: str(tok.value) is the text of
\* a word and the digits of a number
TokenEntry(lx, tok) ==
    [type |-> tok.type,
     value |-> IF tok.type = "NUMBER" THEN ToString(tok.value) ELSE Str(tok.value),
     line |-> tok.lineno,
     column |-> find_column(lx, tok.lexpos)]

ErrorEntry(type, err) ==
    [type |-> type,
     message |-> err.message,
     line |-> GetOr(err, "line", 0),
     column |-> GetOr(err, "column", 0)]

WarningEntry(warn) ==
    Bind({"type", "code", "message", "line", "column", "pattern_type", "anchor_class"}
                 \cup (IF "suggestion" \in DOMAIN warn THEN {"suggestion"} ELSE {}), LAMBDA dom :
       [f \in dom |->
          IF f = "type" THEN "SemanticWarning"
          ELSE IF f \in {"line", "column"} THEN GetOr(warn, f, 0)
          ELSE GetOr(warn, f, "None")])

\* ParserAPI.parse_content(content, filename) in a process whose set order
\* is seed.  stage names the last phase that was started; raised tells that
\* an exception left the call, and then there is no result.
parse_content(api, content, filename, seed) ==
    Bind(TokenLoop(input(reset(api.lexer), content, filename), <<>>), LAMBDA scan :
    Bind(MapSeq(LAMBDA tok : TokenEntry(scan.lexer, tok), scan.tokens), LAMBDA tokens :
    Bind(MapSeq(LAMBDA err : ErrorEntry("LexerError", err), scan.lexer.errors), LAMBDA lexical :
    Bind(parse([api.parser EXCEPT !.errors = <<>>], reset(scan.lexer), content, filename), LAMBDA parsed :
    Bind(MapSeq(LAMBDA err : ErrorEntry("ParserError", err), parsed.parser.errors), LAMBDA syntax :
    Bind(analyze(parsed.result, seed), LAMBDA sem :
    Bind(_build_result(sem).files[1], LAMBDA file_data :
    Bind([symbols |-> file_data.symbols,
             patterns |-> file_data.patterns,
             incomplete_patterns |-> file_data.incomplete_patterns,
             summary |-> _build_result(sem).summary], LAMBDA semantic_result :
    Bind(MapSeq(LAMBDA err : ErrorEntry("SemanticError", err), file_data.errors), LAMBDA semantic_errors :
       IF lexical # <<>>
       THEN [api |-> [api EXCEPT !.lexer = scan.lexer, !.parser.errors = <<>>],
             stage |-> "lexical",
             raised |-> FALSE,
             result |-> [tokens |-> tokens, ast |-> None, semantic |-> None,
                         errors |-> lexical, warnings |-> <<>>]]
       ELSE IF parsed.raised
       THEN [api |-> [api EXCEPT !.lexer = parsed.lexer, !.parser = parsed.parser],
             stage |-> "syntax",
             raised |-> TRUE,
             result |-> None]
       ELSE IF parsed.result = None
       THEN [api |-> [api EXCEPT !.lexer = parsed.lexer, !.parser = parsed.parser],
             stage |-> "syntax",
             raised |-> FALSE,
             result |-> [tokens |-> tokens, ast |-> None, semantic |-> None,
                         errors |-> syntax, warnings |-> <<>>]]
       ELSE IF sem.raised
       THEN [api |-> [lexer |-> parsed.lexer, parser |-> parsed.parser, semantic |-> sem],
             stage |-> "semantic",
             raised |-> TRUE,
             result |-> None]
       ELSE [api |-> [lexer |-> parsed.lexer, parser |-> parsed.parser, semantic |-> sem],
             stage |-> "semantic",
             raised |-> FALSE,
             result |-> [tokens |-> tokens, ast |-> parsed.result,
                         semantic |-> semantic_result,
                         errors |-> syntax \o semantic_errors,
                         warnings |-> MapSeq(WarningEntry, file_data.warnings)]])))))))))

(***************************************************************************)
(* The state of the program                                                *)
(***************************************************************************)
\* source    the text handed to the latest call
\* hashseed  the order the running interpreter process gives to the names of
\*           a set (hash randomisation)
\* lexer     the MyLexer instance
\* parser    the MyParser instance built on that lexer
\* semantic  the ParserSemantic instance
\* tokens    the tokens returned since the latest input
\* ast       the value returned by the latest MyParser.parse, or the AST
\*           handed to analyze
\* raised    whether an exception left the latest call
\* phase     where the caller stands: new, fed, done, parsed, returned, analyzed
\* runs      the answers of ParserAPI.parse_content so far
\* calls     how many texts the caller handed to the lexer or to the parser
VARIABLES source, hashseed, lexer, parser, semantic, tokens, ast, raised, phase, runs, calls

vars == <<source, hashseed, lexer, parser, semantic, tokens, ast, raised, phase, runs, calls>>

(***************************************************************************)
(* Bounds and inputs                                                       *)
(***************************************************************************)
\* Longest text of the scan of single texts
MaxLen == 4

\* Longest text fed to a lexer that is used again
ReuseLen == 3

\* Most texts handed to one lexer or to one parser
MaxCalls == 3

\* Most calls of parse_content on one source
MaxRuns == 2

\* Most definitions of a package handed to analyze
MaxDefs == 4

\* Most definitions of a package handed to populate_from_ast
MaxTableDefs == 3

\* '$' is no token and no literal; '-' and '.' are tokens only in pairs
LexAlphabet == {"a", "1", "-", "$", "\"", " ", "\n"}

LexTexts == SeqsUpTo(LexAlphabet, MaxLen)

ReuseAlphabet == {"a", "$", "\n"}

ReuseTexts == SeqsUpTo(ReuseAlphabet, ReuseLen)

\* The names that end up in Python sets, in one iteration order and in the
\* opposite one
SeedNames == <<"_A", "_B", "_C", "_D", "_F", "_G", "_R", "_S", "_T", "_U", "_X", "_Y">>

Reverse(s) == [i \in 1..Len(s) |-> s[Len(s) + 1 - i]]

Seeds == {SeedNames, Reverse(SeedNames)}

\* package
TextPackageOnly ==
    <<"p", "a", "c", "k", "a", "g", "e">>

\* knd package _P
TextTypo ==
    <<"k", "n", "d", " ", "p", "a", "c", "k", "a", "g", "e", " ", "_", "P">>

\* knd package _P kind _A
TextTypoClass ==
    <<"k", "n", "d", " ", "p", "a", "c", "k", "a", "g", "e", " ", "_", "P", " ", "k", "i",
      "n", "d", " ", "_", "A">>

\* packge _P
TextTypoPackage ==
    <<"p", "a", "c", "k", "g", "e", " ", "_", "P">>

\* package _P knd
TextTypoLast ==
    <<"p", "a", "c", "k", "a", "g", "e", " ", "_", "P", " ", "k", "n", "d">>

\* package _P
TextEmptyPackage ==
    <<"p", "a", "c", "k", "a", "g", "e", " ", "_", "P">>

\* package _P kind _A
TextKind ==
    <<"p", "a", "c", "k", "a", "g", "e", " ", "_", "P", " ", "k", "i", "n", "d", " ", "_",
      "A">>

\* package _P kind _A { _x : Number }
TextAttribute ==
    <<"p", "a", "c", "k", "a", "g", "e", " ", "_", "P", " ", "k", "i", "n", "d", " ", "_",
      "A", " ", "{", " ", "_", "x", " ", ":", " ", "N", "u", "m", "b", "e", "r", " ", "}">>

\* package Person
TextUpperPackage ==
    <<"p", "a", "c", "k", "a", "g", "e", " ", "P", "e", "r", "s", "o", "n">>

\* package Zoo\nkind Animal\nsubkind Dog specializes Animal\nsubkind Cat specializes Animal\ndisjoint complete genset Pets {\n general Animal\n specifics Dog, Cat\n}
TextUpperNames ==
    <<"p", "a", "c", "k", "a", "g", "e", " ", "Z", "o", "o", "\n", "k", "i", "n", "d", " ",
      "A", "n", "i", "m", "a", "l", "\n", "s", "u", "b", "k", "i", "n", "d", " ", "D", "o",
      "g", " ", "s", "p", "e", "c", "i", "a", "l", "i", "z", "e", "s", " ", "A", "n", "i",
      "m", "a", "l", "\n", "s", "u", "b", "k", "i", "n", "d", " ", "C", "a", "t", " ", "s",
      "p", "e", "c", "i", "a", "l", "i", "z", "e", "s", " ", "A", "n", "i", "m", "a", "l",
      "\n", "d", "i", "s", "j", "o", "i", "n", "t", " ", "c", "o", "m", "p", "l", "e", "t",
      "e", " ", "g", "e", "n", "s", "e", "t", " ", "P", "e", "t", "s", " ", "{", "\n", " ",
      "g", "e", "n", "e", "r", "a", "l", " ", "A", "n", "i", "m", "a", "l", "\n", " ", "s",
      "p", "e", "c", "i", "f", "i", "c", "s", " ", "D", "o", "g", ",", " ", "C", "a", "t",
      "\n", "}">>

\* package _P\nkind _A\nsubkind _B specializes _A\nsubkind _C specializes _A\ndisjoint complete genset _G {\n general _A\n specifics _B, _C\n}
TextUnderscoreNames ==
    <<"p", "a", "c", "k", "a", "g", "e", " ", "_", "P", "\n", "k", "i", "n", "d", " ", "_",
      "A", "\n", "s", "u", "b", "k", "i", "n", "d", " ", "_", "B", " ", "s", "p", "e", "c",
      "i", "a", "l", "i", "z", "e", "s", " ", "_", "A", "\n", "s", "u", "b", "k", "i", "n",
      "d", " ", "_", "C", " ", "s", "p", "e", "c", "i", "a", "l", "i", "z", "e", "s", " ",
      "_", "A", "\n", "d", "i", "s", "j", "o", "i", "n", "t", " ", "c", "o", "m", "p", "l",
      "e", "t", "e", " ", "g", "e", "n", "s", "e", "t", " ", "_", "G", " ", "{", "\n", " ",
      "g", "e", "n", "e", "r", "a", "l", " ", "_", "A", "\n", " ", "s", "p", "e", "c", "i",
      "f", "i", "c", "s", " ", "_", "B", ",", " ", "_", "C", "\n", "}">>

\* package _P role _R
TextRoleAlone ==
    <<"p", "a", "c", "k", "a", "g", "e", " ", "_", "P", " ", "r", "o", "l", "e", " ", "_",
      "R">>

\* package _P phase _F { }
TextPhaseAlone ==
    <<"p", "a", "c", "k", "a", "g", "e", " ", "_", "P", " ", "p", "h", "a", "s", "e", " ",
      "_", "F", " ", "{", " ", "}">>

\* package _P $
TextIllegal ==
    <<"p", "a", "c", "k", "a", "g", "e", " ", "_", "P", " ", "$">>

\* package _P kind _A subkind _B specializes _A subkind _C specializes _A genset _G where _B specializes _A
TextPartialGenset ==
    <<"p", "a", "c", "k", "a", "g", "e", " ", "_", "P", " ", "k", "i", "n", "d", " ", "_",
      "A", " ", "s", "u", "b", "k", "i", "n", "d", " ", "_", "B", " ", "s", "p", "e", "c",
      "i", "a", "l", "i", "z", "e", "s", " ", "_", "A", " ", "s", "u", "b", "k", "i", "n",
      "d", " ", "_", "C", " ", "s", "p", "e", "c", "i", "a", "l", "i", "z", "e", "s", " ",
      "_", "A", " ", "g", "e", "n", "s", "e", "t", " ", "_", "G", " ", "w", "h", "e", "r",
      "e", " ", "_", "B", " ", "s", "p", "e", "c", "i", "a", "l", "i", "z", "e", "s", " ",
      "_", "A">>

\* package _P kind _A role _R specializes _A
TextRoleOfKind ==
    <<"p", "a", "c", "k", "a", "g", "e", " ", "_", "P", " ", "k", "i", "n", "d", " ", "_",
      "A", " ", "r", "o", "l", "e", " ", "_", "R", " ", "s", "p", "e", "c", "i", "a", "l",
      "i", "z", "e", "s", " ", "_", "A">>

\* package _P kind _A subkind _B specializes _A { _x : _T }
TextBadType ==
    <<"p", "a", "c", "k", "a", "g", "e", " ", "_", "P", " ", "k", "i", "n", "d", " ", "_",
      "A", " ", "s", "u", "b", "k", "i", "n", "d", " ", "_", "B", " ", "s", "p", "e", "c",
      "i", "a", "l", "i", "z", "e", "s", " ", "_", "A", " ", "{", " ", "_", "x", " ", ":",
      " ", "_", "T", " ", "}">>

\* kind _A
TextNoPackage ==
    <<"k", "i", "n", "d", " ", "_", "A">>

ParseTexts ==
    {TextNoPackage, TextPackageOnly, TextTypo, TextTypoPackage, TextTypoLast, TextEmptyPackage, TextKind,
     TextAttribute, TextUpperPackage, TextUpperNames, TextUnderscoreNames}

PipelineTexts ==
    {TextPackageOnly, TextTypo, TextTypoClass, TextEmptyPackage, TextKind, TextAttribute,
     TextUpperPackage, TextUnderscoreNames, TextRoleAlone, TextPhaseAlone, TextIllegal,
     TextPartialGenset, TextRoleOfKind, TextBadType}

\* [1]
One == CardinalityNode(1, 1)

\* _x : _T, an attribute whose type is declared nowhere
UndeclaredTypeAttribute == Attribute("_x", "_T", None, None)

\* @<stereotype> -- [1] <target>
RelationTo(stereotype, target) ==
    InternalRelation(stereotype, None, "--", "None", "None", One, target)

\* The definitions a package handed to analyze is made of, as the parser
\* builds them
DefinitionPool ==
    <<ClassDef("kind", "_A", None, None),
      ClassDef("subkind", "_B", Specialization(<<"_A">>), None),
      ClassDef("subkind", "_C", Specialization(<<"_A", "_B">>), List(<<UndeclaredTypeAttribute>>)),
      ClassDef("subkind", "_D", Specialization(<<"_B">>), None),
      GensetDef("_H", TRUE, TRUE, "_A", "None", <<"_B">>),
      ClassDef("role", "_R", Specialization(<<"_A">>), List(<<UndeclaredTypeAttribute>>)),
      ClassDef("role", "_S", None, None),
      ClassDef("phase", "_F", Specialization(<<"_A">>), List(<<UndeclaredTypeAttribute>>)),
      ClassDef("phase", "_G", Specialization(<<"_A">>), None),
      GensetDef("_I", TRUE, FALSE, "_A", "None", <<"_F", "_G">>),
      GensetDef("_J", FALSE, FALSE, "_A", "None", <<"_F", "_G", "_R">>),
      ClassDef("relator", "_M",
               None, List(<<RelationTo("mediation", "_A"), RelationTo("mediation", "_B")>>)),
      ClassDef("relator", "_N", None, List(<<RelationTo("mediation", "_A")>>)),
      ClassDef("mode", "_O",
               None, List(<<RelationTo("characterization", "_A"),
                            RelationTo("externalDependence", "_B")>>)),
      ClassDef("mode", "_Q", None, List(<<>>)),
      ClassDef("roleMixin", "_X", None, None),
      GensetDef("_K", TRUE, TRUE, "_X", "None", <<"_R", "_Y">>),
      GensetDef("_L", TRUE, FALSE, "_A", "None", <<"_B", "_C">>),
      ClassDef("role", "_T", Specialization(<<"_A">>), None),
      ClassDef("role", "_U", Specialization(<<"_B", "_A">>), None),
      ClassDef("relator", "_W", None, List(<<UndeclaredTypeAttribute>>)),
      ClassDef("mode", "_V", None, List(<<RelationTo("characterization", "_A")>>)),
      ClassDef("mode", "_Z", None, None),
      ExternalRelation("material", "_A", One, "--", "_m", "--", One, "_B")>>

\* The definitions of the pool whose index is in S, in the order of the pool
Choice(S) ==
    LET RECURSIVE pick(_)
        pick(i) == IF i > Len(DefinitionPool) THEN <<>>
                   ELSE (IF i \in S THEN <<DefinitionPool[i]>> ELSE <<>>) \o pick(i + 1)
    IN pick(1)

ASTs ==
    {TontoFile(<<>>, PackageDeclaration("_P"), Choice(S)) :
        S \in {T \in SUBSET (1..Len(DefinitionPool)) : Cardinality(T) <= MaxDefs}}

\* The definitions a package handed to populate_from_ast is made of, as the
\* parser builds them: two declarations under one name for each map, bodies
\* with attributes and relations of several stereotypes
TablePool ==
    <<ClassDef("relator", "_M", None,
               List(<<RelationTo("mediation", "_A"), UndeclaredTypeAttribute,
                      RelationTo("material", "_B")>>)),
      ClassDef("kind", "_M", None, List(<<RelationTo("characterization", "_B")>>)),
      ClassDef("kind", "_A", None, None),
      ClassDef("subkind", "_B", Specialization(<<"_A">>), List(<<>>)),
      ClassDef("role", "_C", Specialization(<<"_M", "_A">>),
               List(<<RelationTo("componentOf", "_A")>>)),
      GensetDef("_G", TRUE, FALSE, "_A", "None", <<"_B">>),
      GensetDef("_G", FALSE, TRUE, "_A", "None", <<"_B", "_C">>),
      DatatypeDef("_D", None, None),
      DatatypeDef("_D", Specialization(<<"_E">>), List(<<UndeclaredTypeAttribute>>)),
      EnumDef("_E", None, List(<<"_x">>)),
      EnumDef("_E", None, List(<<"_y", "_x">>)),
      ExternalRelation("material", "_A", One, "--", "_m", "--", One, "_B")>>

\* The names and the stereotypes get_children_of is asked for: declared
\* parents, a class that is no parent and a name declared nowhere; "None" is
\* the call without a stereotype
QueryNames == {"_A", "_M", "_B", "_Z"}

QueryStereotypes == {"None", "subkind", "role"}

\* The packages of at most MaxTableDefs definitions of the pool, in any order
TableASTs ==
    {TontoFile(<<>>, PackageDeclaration("_P"), [i \in 1..Len(order) |-> TablePool[order[i]]]) :
        order \in {o \in SeqsUpTo(1..Len(TablePool), MaxTableDefs) :
                      \A i, j \in 1..Len(o) : i # j => o[i] # o[j]}}

(***************************************************************************)
(* Operations                                                              *)
(***************************************************************************)
\* lexer.input(source) on a new lexer
LexInput ==
    /\ phase = "new"
    /\ lexer' = input(lexer, source, "None")
    /\ tokens' = <<>>
    /\ phase' = "fed"
    /\ UNCHANGED <<source, hashseed, parser, semantic, ast, raised, runs, calls>>

\* lexer.token(): the next token, or the end of the input
LexToken ==
    /\ phase = "fed"
    /\ \E r \in {token(lexer)} :
          /\ lexer' = r.lexer
          /\ tokens' = IF r.tok = None THEN tokens ELSE Append(tokens, r.tok)
          /\ phase' = IF r.tok = None THEN "done" ELSE "fed"
    /\ UNCHANGED <<source, hashseed, parser, semantic, ast, raised, runs, calls>>

\* lexer.input(data) on the lexer as it stands
ReuseInput ==
    \E data \in ReuseTexts :
        /\ calls < MaxCalls
        /\ source' = data
        /\ lexer' = input(lexer, data, "None")
        /\ tokens' = <<>>
        /\ phase' = "fed"
        /\ calls' = calls + 1
        /\ UNCHANGED <<hashseed, parser, semantic, ast, raised, runs>>

\* lexer.tokenize(data) on the lexer as it stands
ReuseTokenize ==
    \E data \in ReuseTexts :
        \E r \in {tokenize(lexer, data)} :
           /\ calls < MaxCalls
           /\ source' = data
           /\ lexer' = r.lexer
           /\ tokens' = r.tokens
           /\ phase' = "done"
           /\ calls' = calls + 1
           /\ UNCHANGED <<hashseed, parser, semantic, ast, raised, runs>>

\* parser.parse(data) on the parser as it stands
Parse ==
    \E data \in ParseTexts :
        /\ calls < MaxCalls
        /\ \E r \in {parse(parser, lexer, data, "None")} :
              /\ parser' = r.parser
              /\ lexer' = r.lexer
              /\ ast' = r.result
              /\ raised' = r.raised
        /\ source' = data
        /\ phase' = "parsed"
        /\ calls' = calls + 1
        /\ UNCHANGED <<hashseed, semantic, tokens, runs>>

\* api.parse_content(source) on the ParserAPI made of lexer, parser and
\* semantic
ParseContent ==
    /\ Len(runs) < MaxRuns
    /\ \E r \in {parse_content([lexer |-> lexer, parser |-> parser, semantic |-> semantic],
                                 source, "<unknown>", hashseed)} :
          /\ lexer' = r.api.lexer
          /\ parser' = r.api.parser
          /\ semantic' = r.api.semantic
          /\ raised' = r.raised
          /\ runs' = Append(runs, [stage |-> r.stage, raised |-> r.raised, result |-> r.result])
    /\ phase' = "returned"
    /\ UNCHANGED <<source, hashseed, tokens, ast, calls>>

\* The program is started again: a new interpreter process, with its own
\* hash seed, builds a new ParserAPI
NewProcess ==
    \E seed \in Seeds :
        /\ seed # hashseed
        /\ hashseed' = seed
        /\ lexer' = NewMyLexer
        /\ parser' = NewMyParser
        /\ semantic' = NewParserSemantic
        /\ raised' = FALSE
        /\ phase' = "new"
        /\ UNCHANGED <<source, tokens, ast, runs, calls>>

\* semantic.analyze(ast)
Analyze ==
    /\ phase = "new"
    /\ semantic' = analyze(ast, hashseed)
    /\ raised' = semantic'.raised
    /\ ast' = [ast EXCEPT !.content = populate_from_ast(NewSymbolTable, ast).content]
    /\ phase' = "analyzed"
    /\ UNCHANGED <<source, hashseed, lexer, parser, tokens, runs, calls>>

\* table = SymbolTable(); table.populate_from_ast(ast)
Populate ==
    /\ phase = "new"
    /\ \E r \in {populate_from_ast(NewSymbolTable, ast)} :
           /\ semantic' = [semantic EXCEPT !.symbol_table = r.table]
           /\ ast' = [ast EXCEPT !.content = r.content]
    /\ phase' = "populated"
    /\ UNCHANGED <<source, hashseed, lexer, parser, tokens, raised, runs, calls>>

\* table.get_children_of(class_name, stereotype) on the populated table
GetChildren ==
    /\ phase = "populated"
    /\ \E class_name \in QueryNames, stereotype \in QueryStereotypes :
           runs' = <<[class_name |-> class_name,
                      stereotype |-> stereotype,
                      children |-> get_children_of(semantic.symbol_table,
                                                   class_name, stereotype)]>>
    /\ phase' = "queried"
    /\ UNCHANGED <<source, hashseed, lexer, parser, semantic, tokens, ast, raised, calls>>

(***************************************************************************)
(* Specifications                                                          *)
(***************************************************************************)
\* What every specification starts from: the instances as constructed
Constructed ==
    /\ lexer = NewMyLexer
    /\ parser = NewMyParser
    /\ semantic = NewParserSemantic
    /\ tokens = <<>>
    /\ raised = FALSE
    /\ phase = "new"
    /\ runs = <<>>
    /\ calls = 0

\* One text is scanned token by token
InitLexScan ==
    /\ Constructed
    /\ source \in LexTexts
    /\ hashseed = SeedNames
    /\ ast = None

NextLexScan == LexInput \/ LexToken

SpecLexScan == InitLexScan /\ [][NextLexScan]_vars

\* One lexer is fed one text after the other
InitLexReuse ==
    /\ Constructed
    /\ source = <<>>
    /\ hashseed = SeedNames
    /\ ast = None

NextLexReuse == ReuseInput \/ LexToken \/ ReuseTokenize

SpecLexReuse == InitLexReuse /\ [][NextLexReuse]_vars

\* One parser parses one text after the other
InitParser ==
    /\ Constructed
    /\ source = <<>>
    /\ hashseed = SeedNames
    /\ ast = None

NextParser == Parse

SpecParser == InitParser /\ [][NextParser]_vars

\* The pipeline runs on one source, in one process or in several
InitPipeline ==
    /\ Constructed
    /\ source \in PipelineTexts
    /\ hashseed \in Seeds
    /\ ast = None

NextPipeline == ParseContent \/ NewProcess

SpecPipeline == InitPipeline /\ [][NextPipeline]_vars

\* analyze runs on one AST
Init ==
    /\ Constructed
    /\ source = <<>>
    /\ hashseed \in Seeds
    /\ ast \in ASTs

Next == Analyze

Spec == Init /\ [][Next]_vars

\* A symbol table is populated from one AST
InitTable ==
    /\ Constructed
    /\ source = <<>>
    /\ hashseed = SeedNames
    /\ ast \in TableASTs

NextTable == Populate \/ GetChildren

SpecTable == InitTable /\ [][NextTable]_vars

(***************************************************************************)
(* Properties                                                              *)
(***************************************************************************)
\* The text of a token, whatever its kind
Spelling(tok) == IF tok.type = "NUMBER" THEN ToString(tok.value) ELSE Str(tok.value)

\* The kinds and texts of a token sequence
Spellings(toks) == MapSeq(LAMBDA tok : [type |-> tok.type, text |-> Spelling(tok)], toks)

\* The line numbers of a token sequence
Lines(toks) == MapSeq(LAMBDA tok : tok.lineno, toks)

\* A lexer after n calls of token()
RECURSIVE TakeTokens(_, _)
TakeTokens(lx, n) == IF n = 0 THEN lx ELSE TakeTokens(token(lx).lexer, n - 1)

\* The counters and the error buffer of two lexers are the same
SameCounters(a, b) ==
    /\ a.errors = b.errors
    /\ a.token_count = b.token_count
    /\ a.category_counts = b.category_counts
    /\ a.lineno = b.lineno

\* C1: whenever the pipeline reaches the semantic phase, analyze returns and
\* the answer carries the complete semantic result; no detector raises,
\* whatever classes the parser produced.
PipelineAlwaysReturns ==
    \A i \in 1..Len(runs) :
        runs[i].stage = "semantic" =>
            /\ ~runs[i].raised
            /\ runs[i].result # None
            /\ runs[i].result.semantic # None

\* C2: after a call of MyParser.parse, the error list of the parser is the
\* one a new parser has after parsing the same text: nothing of the earlier
\* texts is left in it.
ParserErrorsAreOfLatestInput ==
    phase = "parsed" =>
        parser.errors = parse(NewMyParser, NewMyLexer, source, "None").parser.errors

\* C3: however many texts a lexer was fed before, during and after the scan
\* of the latest text its error list, token_count, category_counts and line
\* numbers are those of a new lexer that scans the same text.
LexerStartsFresh ==
    LET fresh == tokenize(NewMyLexer, source)
        n == Len(tokens)
    IN /\ phase = "done" =>
            /\ SameCounters(lexer, fresh.lexer)
            /\ Lines(tokens) = Lines(fresh.tokens)
       /\ phase = "fed" =>
            /\ SameCounters(lexer, TakeTokens(input(NewMyLexer, source, "None"), n))
            /\ n <= Len(fresh.tokens)
            /\ Lines(tokens) = SubSeq(Lines(fresh.tokens), 1, n)

\* A lexer that was fed an earlier text has scanned a text with a token, a
\* newline and an illegal character
LexerReused ==
    /\ phase = "done"
    /\ calls >= 2
    /\ tokens # <<>>
    /\ lexer.errors # <<>>
    /\ lexer.lineno > 1

\* C4: when the scan of a text recorded exactly one illegal character, that
\* character stands at a position k such that the tokens are those of the
\* text before k followed by those of the text after k, and the one record
\* holds the character, 1 + the number of newlines before k as its line and
\* the distance of k from the last newline before it as its column, next to
\* filename, line_text and pointer.
OneIllegalCharacter ==
    (phase = "done" /\ Len(lexer.errors) = 1) =>
        \E k \in 1..Len(source) :
            LET before == tokenize(NewMyLexer, SubSeq(source, 1, k - 1))
                after == tokenize(NewMyLexer, SubSeq(source, k + 1, Len(source)))
                newlines == {i \in 1..(k - 1) : source[i] = "\n"}
                last_newline == IF newlines = {} THEN 0
                                ELSE CHOOSE i \in newlines : \A j \in newlines : j <= i
                error == lexer.errors[1]
            IN /\ before.lexer.errors = <<>>
               /\ after.lexer.errors = <<>>
               /\ Spellings(tokens) = Spellings(before.tokens) \o Spellings(after.tokens)
               /\ {"character", "line", "column", "filename", "line_text", "pointer"}
                      \subseteq DOMAIN error
               /\ error.character = source[k]
               /\ error.line = 1 + Cardinality(newlines)
               /\ error.column = k - last_newline

\* The scan of a text ended with one illegal character at the start of its
\* second line, a token before it and a token after it
IllegalCharacterSkipped ==
    /\ phase = "done"
    /\ Len(lexer.errors) = 1
    /\ lexer.errors[1].line = 2
    /\ lexer.errors[1].column = 1
    /\ Len(tokens) = 2
    /\ tokens[1].lineno = 1
    /\ tokens[2].lineno = 2

\* The syntax and lexical errors of an answer
PhaseErrors(result) ==
    SelectSeq(result.errors, LAMBDA e : e.type \in {"LexerError", "ParserError"})

\* C5: parse_content runs analyze only when the lexical and the syntax error
\* list of the input are empty: an answer that reports a lexical or a syntax
\* error was made without the semantic phase and has no semantic result.
SemanticOnlyAfterCleanParse ==
    \A i \in 1..Len(runs) :
        (~runs[i].raised /\ PhaseErrors(runs[i].result) # <<>>) =>
            /\ runs[i].stage # "semantic"
            /\ runs[i].result.semantic = None

\* C6: two runs of the pipeline on the same source give the same answer:
\* tokens, AST, pattern records, messages and code suggestions.
PipelineIsDeterministic ==
    \A i, j \in 1..Len(runs) :
        /\ runs[i].raised = runs[j].raised
        /\ runs[i].result = runs[j].result

\* C7: a package with classes and a block genset whose names start with an
\* uppercase letter is parsed into an AST with one class_definition per
\* declaration and the genset_definition, and populate_from_ast registers
\* those classes and that genset.
UppercaseNamesParse ==
    (phase = "parsed" /\ source = TextUpperNames) =>
        /\ ~raised
        /\ ast # None
        /\ MapSeq(LAMBDA d : d.node_type, ast.content)
              = <<"class_definition", "class_definition", "class_definition",
                  "genset_definition">>
        /\ LET st == populate_from_ast(NewSymbolTable, ast).table
           IN /\ DictKeys(st.classes) = <<"Animal", "Dog", "Cat">>
              /\ DictKeys(st.gensets) = <<"Pets">>
              /\ DictGet(st.gensets, "Pets").disjoint
              /\ DictGet(st.gensets, "Pets").complete
              /\ DictGet(st.gensets, "Pets").general = "Animal"
              /\ DictGet(st.gensets, "Pets").specifics = <<"Dog", "Cat">>

\* C8: the syntax error handler returns normally for every unexpected token,
\* so that no call of parse is left by an exception.
ErrorHandlerNeverFails == phase = "parsed" => ~raised

\* The error-severity diagnostics that the detectors raise about the member
\* named name of a pattern p
MemberDiagnostics(st, p, name) ==
    LET member == get_class(st, name)
        body == IF member = None THEN None ELSE member.body
        code == IF p.pattern_type = "Subkind_Pattern" THEN "SUBKIND_ATTRIBUTE_TYPE_NOT_FOUND"
                ELSE IF p.pattern_type = "Role_Pattern" THEN "ROLE_ATTRIBUTE_TYPE_NOT_FOUND"
                ELSE "PHASE_ATTRIBUTE_TYPE_NOT_FOUND"
        label == IF p.pattern_type = "Subkind_Pattern" THEN "Subkind"
                 ELSE IF p.pattern_type = "Role_Pattern" THEN "Role"
                 ELSE "Phase"
    IN {e \in ToSet(semantic.errors) :
           \/ Contains(AttributeTypeErrors(st, body, code, label, name), e)
           \/ /\ p.pattern_type = "Phase_Pattern"
              /\ e.code = "PHASE_IN_MULTIPLE_GENSETS"
              /\ e.anchor_class = p.anchor_class
              /\ Len(get_genset_for_specific(st, name)) > 1}

\* C9: a Subkind, Role or Phase pattern in the complete list has no member
\* about which a detector raised an error-severity diagnostic.
MemberErrorsMarkIncomplete ==
    phase = "analyzed" =>
        \A i \in 1..Len(semantic.patterns) :
            LET p == semantic.patterns[i]
            IN p.pattern_type \in {"Subkind_Pattern", "Role_Pattern", "Phase_Pattern"} =>
                   \A k \in 1..Len(p.elements.specifics) :
                       MemberDiagnostics(semantic.symbol_table, p, p.elements.specifics[k]) = {}

\* C10: after analyze, no pattern of the complete list carries a violation
\* of severity error.
CompletePatternsHaveNoErrors ==
    phase = "analyzed" =>
        \A i \in 1..Len(semantic.patterns) :
            \A k \in 1..Len(semantic.patterns[i].violations) :
                semantic.patterns[i].violations[k].severity # "error"

\* analyze returned a complete pattern that carries a violation and an
\* incomplete one that carries an error
BothBucketsFilled ==
    /\ phase = "analyzed"
    /\ ~raised
    /\ \E i \in 1..Len(semantic.patterns) : semantic.patterns[i].violations # <<>>
    /\ \E i \in 1..Len(semantic.incomplete_patterns) :
           \E k \in 1..Len(semantic.incomplete_patterns[i].violations) :
               semantic.incomplete_patterns[i].violations[k].severity = "error"

\* sub occurs in the string s
Mentions(s, sub) ==
    \E i \in 1..(Len(s) - Len(sub) + 1) : SubSeq(s, i, i + Len(sub) - 1) = sub

\* The string s with every run of blanks and newlines turned into one blank
Squeeze(s) ==
    LET Blank(i) == SubSeq(s, i, i) \in {" ", "\n"}
        RECURSIVE from(_)
        from(i) == IF i > Len(s) THEN ""
                   ELSE IF ~Blank(i) THEN SubSeq(s, i, i) \o from(i + 1)
                   ELSE IF i > 1 /\ Blank(i - 1) THEN from(i + 1)
                   ELSE " " \o from(i + 1)
    IN from(1)

\* The patterns of both lists
AllPatterns == semantic.patterns \o semantic.incomplete_patterns

\* The patterns of a list that have the type and the anchor
PatternsAt(list, pattern_type, anchor_class) ==
    SelectSeq(list, LAMBDA p : /\ p.pattern_type = pattern_type
                               /\ p.anchor_class = anchor_class)

\* The names of the declared classes of a stereotype, in declaration order
Declared(stereotype) ==
    MapSeq(LAMBDA d : d.class_name,
           SelectSeq(ast.content, LAMBDA d : /\ d.node_type = "class_definition"
                                             /\ d.class_stereotype = stereotype))

\* The gensets of the AST
DeclaredGensets == {d \in ToSet(ast.content) : d.node_type = "genset_definition"}

\* The declared classes of a stereotype that list parent among the parents
\* of their specializes clause, in declaration order
ChildrenOf(parent, stereotype) ==
    MapSeq(LAMBDA d : d.class_name,
           SelectSeq(ast.content,
                     LAMBDA d : /\ d.node_type = "class_definition"
                                /\ d.class_stereotype = stereotype
                                /\ d.specialization # None
                                /\ Contains(d.specialization.parents, parent)))

\* The gensets that list the class among their specifics
GensetsListing(name) == {g \in DeclaredGensets : Contains(g.specifics, name)}

\* A diagnostic of the list has the code and the severity and names the class
Diagnosed(list, code, severity, name) ==
    \E i \in 1..Len(list) :
        /\ list[i].code = code
        /\ list[i].severity = severity
        /\ Mentions(list[i].message, "'" \o name \o "'")

\* C11: every phase that is a specific of two gensets has an error
\* PHASE_IN_MULTIPLE_GENSETS that names it; every role that is a specific of
\* two gensets has an info ROLE_IN_MULTIPLE_GENSETS that names it and no
\* error about its gensets.
PhaseInTwoGensetsIsError ==
    phase = "analyzed" =>
        /\ \A n \in ToSet(Declared("phase")) :
               Cardinality(GensetsListing(n)) >= 2 =>
                   Diagnosed(semantic.errors, "PHASE_IN_MULTIPLE_GENSETS", "error", n)
        /\ \A n \in ToSet(Declared("role")) :
               Cardinality(GensetsListing(n)) >= 2 =>
                   /\ Diagnosed(semantic.warnings, "ROLE_IN_MULTIPLE_GENSETS", "info", n)
                   /\ \A code \in {"ROLE_IN_MULTIPLE_GENSETS", "PHASE_IN_MULTIPLE_GENSETS"} :
                          /\ ~Diagnosed(semantic.errors, code, "error", n)
                          /\ ~Diagnosed(semantic.warnings, code, "error", n)

\* P is a kind or a subkind with two subkind children or more
SubkindGroups ==
    {P \in ToSet(Declared("kind")) \cup ToSet(Declared("subkind")) :
        Len(ChildrenOf(P, "subkind")) >= 2}

\* C12: a kind or subkind P with two subkind children or more and a disjoint
\* genset of general P whose specifics are those children, none of them
\* listed by another genset, has one Subkind_Pattern, which is in the
\* complete list with constraints.disjoint true and no violation.
SubkindPatternComplete ==
    phase = "analyzed" =>
        \A P \in SubkindGroups :
            LET children == ToSet(ChildrenOf(P, "subkind"))
            IN (\E g \in DeclaredGensets :
                    /\ g.disjoint
                    /\ g.general = P
                    /\ ToSet(g.specifics) = children
                    /\ \A h \in DeclaredGensets \ {g} : ToSet(h.specifics) \cap children = {})
               => /\ Len(PatternsAt(AllPatterns, "Subkind_Pattern", P)) = 1
                  /\ Len(PatternsAt(semantic.patterns, "Subkind_Pattern", P)) = 1
                  /\ PatternsAt(semantic.patterns, "Subkind_Pattern", P)[1].constraints.disjoint
                  /\ PatternsAt(semantic.patterns, "Subkind_Pattern", P)[1].violations = <<>>

\* analyze put the Subkind_Pattern of a kind with its disjoint genset over
\* two subkinds into the complete list
SubkindPatternWithGenset ==
    /\ phase = "analyzed"
    /\ \E i \in 1..Len(semantic.patterns) :
           /\ semantic.patterns[i].pattern_type = "Subkind_Pattern"
           /\ semantic.patterns[i].elements.genset = "_L"
           /\ semantic.patterns[i].elements.specifics = <<"_B", "_C">>

\* C13: a kind or subkind P with two subkind children or more and no genset
\* over them has one Subkind_Pattern, which is in incomplete_patterns with a
\* MISSING_GENSET warning and a suggestion whose code_suggestion holds
\* "disjoint genset P_Genset { general P specifics C1, ..., Cn }", the
\* children in declaration order.
SubkindPatternMissingGenset ==
    phase = "analyzed" =>
        \A P \in SubkindGroups :
            LET children == ChildrenOf(P, "subkind")
                found == PatternsAt(semantic.incomplete_patterns, "Subkind_Pattern", P)
            IN (\A g \in DeclaredGensets :
                    g.general = P => ToSet(g.specifics) \cap ToSet(children) = {})
               => /\ Len(PatternsAt(AllPatterns, "Subkind_Pattern", P)) = 1
                  /\ Len(found) = 1
                  /\ \E k \in 1..Len(found[1].violations) :
                         /\ found[1].violations[k].code = "MISSING_GENSET"
                         /\ found[1].violations[k].severity = "warning"
                  /\ \E k \in 1..Len(found[1].suggestions) :
                         Mentions(Squeeze(found[1].suggestions[k].code_suggestion),
                                  "disjoint genset " \o P \o "_Genset { general " \o P
                                  \o " specifics " \o Join(children, ", ") \o " }")

\* analyze put the Subkind_Pattern of a kind with two subkinds and no genset
\* into incomplete_patterns
SubkindPatternWithoutGenset ==
    /\ phase = "analyzed"
    /\ \E i \in 1..Len(semantic.incomplete_patterns) :
           /\ semantic.incomplete_patterns[i].pattern_type = "Subkind_Pattern"
           /\ semantic.incomplete_patterns[i].elements.genset = "None"
           /\ semantic.incomplete_patterns[i].elements.specifics = <<"_B", "_C">>
           /\ semantic.incomplete_patterns[i].suggestions # <<>>

\* The declared classes of a stereotype
ClassesOf(stereotype) ==
    {d \in ToSet(ast.content) : /\ d.node_type = "class_definition"
                                /\ d.class_stereotype = stereotype}

\* The internal relations of a stereotype in the body of a class
RelationsOf(class_def, stereotype) ==
    SelectSeq(OrEmpty(class_def.body),
              LAMBDA item : /\ item.node_type = "internal_relation"
                            /\ item.relation_stereotype = stereotype)

\* A pattern of the list has the type and the anchor and carries a
\* violation with the code and the severity
Violates(list, pattern_type, anchor_class, code, severity) ==
    \E i \in 1..Len(list) :
        /\ list[i].pattern_type = pattern_type
        /\ list[i].anchor_class = anchor_class
        /\ \E k \in 1..Len(list[i].violations) :
               /\ list[i].violations[k].code = code
               /\ list[i].violations[k].severity = severity

\* C14: every relator whose body holds exactly one @mediation relation has a
\* Relator_Pattern in incomplete_patterns that carries the error
\* INSUFFICIENT_MEDIATIONS, and none in the complete list.
RelatorWithOneMediation ==
    phase = "analyzed" =>
        \A r \in ClassesOf("relator") :
            Len(RelationsOf(r, "mediation")) = 1 =>
                /\ Violates(semantic.incomplete_patterns, "Relator_Pattern", r.class_name,
                            "INSUFFICIENT_MEDIATIONS", "error")
                /\ PatternsAt(semantic.patterns, "Relator_Pattern", r.class_name) = <<>>

\* The AST with one @externalDependence relation to target added to the body
\* of the class named name
WithExternalDependence(tree, name, target) ==
    [tree EXCEPT !.content =
        MapSeq(LAMBDA d :
                   IF d.node_type = "class_definition" /\ d.class_name = name
                   THEN [d EXCEPT !.body =
                            List(OrEmpty(@) \o <<RelationTo("externalDependence", target)>>)]
                   ELSE d,
               @)]

\* The names of all declared classes
DeclaredNames ==
    {d.class_name : d \in {x \in ToSet(ast.content) : x.node_type = "class_definition"}}

\* C15: a mode with a @characterization and no @externalDependence has its
\* Mode_Pattern in incomplete_patterns with the error
\* MODE_WITHOUT_EXTERNAL_DEPENDENCE; analyze on the same model with one
\* @externalDependence added to the mode, all relation targets declared, has
\* that Mode_Pattern in the complete list.
ModeNeedsExternalDependence ==
    phase = "analyzed" =>
        \A m \in ClassesOf("mode") :
            (/\ Len(RelationsOf(m, "characterization")) >= 1
             /\ Len(RelationsOf(m, "externalDependence")) = 0)
            => /\ Violates(semantic.incomplete_patterns, "Mode_Pattern", m.class_name,
                           "MODE_WITHOUT_EXTERNAL_DEPENDENCE", "error")
               /\ \A target \in DeclaredNames :
                      (\A i \in 1..Len(RelationsOf(m, "characterization")) :
                           RelationsOf(m, "characterization")[i].second_end \in DeclaredNames)
                      => PatternsAt(analyze(WithExternalDependence(ast, m.class_name, target),
                                            hashseed).patterns,
                                    "Mode_Pattern", m.class_name) # <<>>

\* The pattern type of the detector of a stereotype
PatternTypeOf(stereotype) ==
    IF stereotype = "relator" THEN "Relator_Pattern"
    ELSE IF stereotype = "mode" THEN "Mode_Pattern"
    ELSE "RoleMixin_Pattern"

\* C16: every relator, mode and roleMixin has exactly one pattern anchored
\* on it, in the complete list or in incomplete_patterns, whatever its body
\* and its specialization.
EveryAnchorHasItsPattern ==
    phase = "analyzed" =>
        \A stereotype \in {"relator", "mode", "roleMixin"} :
            \A d \in ClassesOf(stereotype) :
                Len(PatternsAt(AllPatterns, PatternTypeOf(stereotype), d.class_name)) = 1

\* The declared classes whose stereotype is among the given ones
DeclaredAs(stereotypes) ==
    {d \in ToSet(ast.content) : /\ d.node_type = "class_definition"
                                /\ d.class_stereotype \in stereotypes}

\* C17: every class P of stereotype kind, subkind, category, role or
\* roleMixin that two roles or more list among their parents, in whatever
\* position, has exactly one Role_Pattern anchored on it, and the specifics
\* of that pattern are all of those roles.
RolePatternForEveryParent ==
    phase = "analyzed" =>
        \A P \in DeclaredAs({"kind", "subkind", "category", "role", "roleMixin"}) :
            LET roles == ChildrenOf(P.class_name, "role")
                found == PatternsAt(AllPatterns, "Role_Pattern", P.class_name)
            IN Len(roles) >= 2 =>
                   /\ Len(found) = 1
                   /\ ToSet(found[1].elements.specifics) = ToSet(roles)

\* C18: the relator of every Relator_Pattern of the complete list has two
\* @mediation relations or more, two of them to distinct declared classes,
\* and constraints.mediation_count is 2 at least.
CompleteRelatorsMediate ==
    phase = "analyzed" =>
        \A i \in 1..Len(semantic.patterns) :
            LET p == semantic.patterns[i]
            IN p.pattern_type = "Relator_Pattern" =>
                   /\ p.constraints.mediation_count >= 2
                   /\ \E r \in ClassesOf("relator") :
                          /\ r.class_name = p.anchor_class
                          /\ \E a, b \in ToSet(RelationsOf(r, "mediation")) :
                                 /\ a.second_end # b.second_end
                                 /\ a.second_end \in DeclaredNames
                                 /\ b.second_end \in DeclaredNames

\* C19: a kind or subkind P with exactly one subkind child (one role child,
\* one phase child) has a standalone warning about that child in the
\* warnings list, tagged with the pattern type and with P, and no pattern of
\* that type anchored on P.
SingleMemberGroups ==
    phase = "analyzed" =>
        \A stereotype \in {"subkind", "role", "phase"} :
            LET pattern_type == IF stereotype = "subkind" THEN "Subkind_Pattern"
                                ELSE IF stereotype = "role" THEN "Role_Pattern"
                                ELSE "Phase_Pattern"
            IN \A P \in DeclaredAs({"kind", "subkind"}) :
                   LET children == ChildrenOf(P.class_name, stereotype)
                   IN Len(children) = 1 =>
                          /\ \E k \in 1..Len(semantic.warnings) :
                                 /\ semantic.warnings[k].severity = "warning"
                                 /\ Get(semantic.warnings[k], "pattern_type") = pattern_type
                                 /\ Get(semantic.warnings[k], "anchor_class") = P.class_name
                                 /\ Mentions(semantic.warnings[k].message,
                                             "'" \o children[1] \o "'")
                          /\ PatternsAt(AllPatterns, pattern_type, P.class_name) = <<>>

\* The violation of a pattern is in the warnings list with its code,
\* severity and message and with the type and the anchor of the pattern
Copied(p, v) ==
    \E k \in 1..Len(semantic.warnings) :
        /\ semantic.warnings[k].code = v.code
        /\ semantic.warnings[k].severity = v.severity
        /\ semantic.warnings[k].message = v.message
        /\ Get(semantic.warnings[k], "pattern_type") = p.pattern_type
        /\ Get(semantic.warnings[k], "anchor_class") = p.anchor_class

\* C20: after analyze every violation of every pattern, of the complete list
\* and of incomplete_patterns alike, is in the warnings list with its code,
\* severity and message, tagged with the type and the anchor of the pattern.
ViolationsAreCopied ==
    phase = "analyzed" =>
        \A i \in 1..Len(AllPatterns) :
            \A k \in 1..Len(AllPatterns[i].violations) :
                Copied(AllPatterns[i], AllPatterns[i].violations[k])

\* analyze copied a violation of a pattern of the complete list and a
\* violation that has no suggestion of a pattern of incomplete_patterns
ViolationsOfBothListsCopied ==
    /\ phase = "analyzed"
    /\ \E i \in 1..Len(semantic.patterns) :
           LET p == semantic.patterns[i]
           IN /\ p.violations # <<>>
              /\ Copied(p, p.violations[1])
    /\ \E i \in 1..Len(semantic.incomplete_patterns) :
           LET p == semantic.incomplete_patterns[i]
           IN /\ Len(p.violations) > Len(p.suggestions)
              /\ Copied(p, p.violations[Len(p.violations)])

\* The symbol table of the instance
Table == semantic.symbol_table

\* The class definitions of the content handed in
ClassDefinitions(content) == SelectSeq(content, LAMBDA d : d.node_type = "class_definition")

\* The items of a body that are internal relations, in body order
InternalRelationsOf(class_def) ==
    SelectSeq(OrEmpty(class_def.body), LAMBDA item : item.node_type = "internal_relation")

\* An entry of the relations list without its source_class key
Untagged(rel) == [f \in DOMAIN rel \ {"source_class"} |-> rel[f]]

\* C21: populate_from_ast leaves the AST as it was: no internal relation of a
\* class body carries a source_class key afterwards.  Every internal relation
\* of the relations list carries the name of a class of the content as
\* source_class and is, without that key, an item of a body of that class;
\* every other entry is an external relation of the content as declared.
PopulateLeavesAST ==
    [][phase' = "populated" =>
        /\ ast' = ast
        /\ \A d \in ToSet(ClassDefinitions(ast'.content)) :
              \A item \in ToSet(InternalRelationsOf(d)) : "source_class" \notin DOMAIN item
        /\ \A rel \in ToSet(semantic'.symbol_table.relations) :
              IF rel.node_type = "internal_relation"
              THEN /\ "source_class" \in DOMAIN rel
                   /\ \E d \in ToSet(ClassDefinitions(ast.content)) :
                         /\ d.class_name = rel.source_class
                         /\ Contains(InternalRelationsOf(d), Untagged(rel))
              ELSE /\ rel.node_type = "external_relation"
                   /\ Contains(ast.content, rel)]_vars

\* A table populated from a class body with an attribute and two relations
\* and from an external relation
TaggedAndExternalRegistered ==
    /\ phase = "populated"
    /\ \E d \in ToSet(ClassDefinitions(ast.content)) :
          /\ Len(InternalRelationsOf(d)) = 2
          /\ Len(OrEmpty(d.body)) = 3
    /\ \E rel \in ToSet(Table.relations) : rel.node_type = "external_relation"
    /\ \E rel \in ToSet(Table.relations) : rel.node_type = "internal_relation"

\* The declarations of one kind in the content, in content order
Declarations(node_type) == SelectSeq(ast.content, LAMBDA d : d.node_type = node_type)

\* A map holds, for every name declared, the last declaration under it, and
\* nothing else
HoldsLast(map, declarations, name_key) ==
    /\ ToSet(DictKeys(map)) = {d[name_key] : d \in ToSet(declarations)}
    /\ \A i \in 1..Len(declarations) :
          (\A j \in (i + 1)..Len(declarations) :
               declarations[j][name_key] # declarations[i][name_key])
          => DictGet(map, declarations[i][name_key]) = declarations[i]

\* C22: after populate_from_ast each of the maps classes, gensets, datatypes
\* and enums holds, for every name declared, exactly the last declaration
\* under that name, and no error and no warning is recorded.
LastDeclarationWins ==
    phase = "populated" =>
        /\ HoldsLast(Table.classes, Declarations("class_definition"), "class_name")
        /\ HoldsLast(Table.gensets, Declarations("genset_definition"), "genset_name")
        /\ HoldsLast(Table.datatypes, Declarations("datatype_definition"), "datatype_name")
        /\ HoldsLast(Table.enums, Declarations("enum_definition"), "enum_name")
        /\ semantic.errors = <<>>
        /\ semantic.warnings = <<>>
        /\ ~raised

\* A table populated from two different declarations of one class name
ClassDeclaredTwice ==
    /\ phase = "populated"
    /\ \E i, j \in 1..Len(ast.content) :
          /\ i < j
          /\ ast.content[i].node_type = "class_definition"
          /\ ast.content[j].node_type = "class_definition"
          /\ ast.content[i].class_name = ast.content[j].class_name
          /\ ast.content[i] # ast.content[j]

\* The names under which the table holds a class
RegisteredClasses == ToSet(DictKeys(Table.classes))

\* C23: after populate_from_ast, get_internal_relations_of(C) is the list
\* of the internal relations of the body of the class registered as C, in
\* body order, each with source_class = C and its own keys; no attribute
\* and no relation of another class is in it.
InternalRelationsAreOfTheBody ==
    phase = "populated" =>
        \A C \in RegisteredClasses :
            get_internal_relations_of(Table, C) =
                MapSeq(LAMBDA item : TagSource(item, C),
                       InternalRelationsOf(get_class(Table, C)))

\* C30: after populate_from_ast every internal relation of the relations
\* list whose source_class is C is an item of the body of the class
\* definition the table holds under C.
NoRelationOfOverwrittenClass ==
    phase = "populated" =>
        \A rel \in ToSet(Table.relations) :
            rel.node_type = "internal_relation" =>
                /\ class_exists(Table, rel.source_class)
                /\ Contains(InternalRelationsOf(get_class(Table, rel.source_class)),
                            Untagged(rel))

\* C24: get_children_of(name, stereotype) returns, each once, exactly the
\* registered classes whose specialization lists name among its parents and,
\* when a stereotype is given, whose class_stereotype is that stereotype; a
\* class without specialization is never returned, and the symbol table is
\* the same after the call.
ChildrenAreTheSpecializers ==
    [][phase' = "queried" =>
        /\ ToSet(runs'[1].children) =
              {c \in ToSet(DictValues(Table.classes)) :
                  /\ c.specialization # None
                  /\ runs'[1].class_name \in ToSet(c.specialization.parents)
                  /\ (runs'[1].stereotype # "None"
                         => c.class_stereotype = runs'[1].stereotype)}
        /\ Cardinality(ToSet(runs'[1].children)) = Len(runs'[1].children)
        /\ semantic' = semantic]_vars

\* A lookup by the second parent of a class, and one in which the stereotype
\* keeps a child out
ChildOfSecondParentFound ==
    /\ phase = "queried"
    /\ runs[1].class_name = "_A"
    /\ \E c \in ToSet(runs[1].children) : c.specialization.parents[1] # "_A"
    /\ \E c \in ToSet(get_children_of(Table, "_A", "None")) : c \notin ToSet(runs[1].children)

\* The characters names are made of
IdentifierChars == Letter \cup Digit \cup {"_"}

\* The kind of a name that is no reserved word, by the first family it fits
FamilyKind(run) ==
    IF /\ \A i \in 1..Len(run) : run[i] \in Letter
       /\ Len(run) > Len(DataTypeWord)
       /\ SubSeq(run, Len(run) - Len(DataTypeWord) + 1, Len(run)) = DataTypeWord
    THEN "NEW_DATATYPE"
    ELSE IF run[1] \in Lower /\ run[Len(run)] \in Digit THEN "INSTANCE_NAME"
    ELSE IF run[1] \in Upper THEN "CLASS_NAME"
    ELSE IF run[1] \in Lower /\ \A i \in 1..Len(run) : run[i] \notin Digit
    THEN "RELATION_NAME"
    ELSE "IDENTIFIER"

\* C25: every token that begins with a letter or an underscore begins a
\* maximal run of letters, digits and underscores and takes all of it, and
\* its type is the reserved kind of the run when the run is a reserved word
\* and otherwise the kind of the first family the run fits: NEW_DATATYPE,
\* INSTANCE_NAME, CLASS_NAME, RELATION_NAME, else IDENTIFIER.
IdentifierRunIsOneToken ==
    \A i \in 1..Len(tokens) :
        source[tokens[i].lexpos + 1] \in Letter \cup {"_"} =>
            /\ tokens[i].lexpos = 0 \/ source[tokens[i].lexpos] \notin IdentifierChars
            /\ tokens[i].value =
                   SubSeq(source, tokens[i].lexpos + 1,
                          RunEnd(source, tokens[i].lexpos, IdentifierChars))
            /\ tokens[i].type = ReservedGet(Str(tokens[i].value), FamilyKind(tokens[i].value))

\* The gensets of the table with the general and exactly the specifics
ExactGensets(general, specifics) ==
    {g \in ToSet(DictValues(Table.gensets)) :
        g.general = general /\ ToSet(g.specifics) = ToSet(specifics)}

\* The gensets of the table with the general and one of the specifics
OverlappingGensets(general, specifics) ==
    {g \in ToSet(DictValues(Table.gensets)) :
        g.general = general /\ ToSet(g.specifics) \cap ToSet(specifics) # {}}

\* C26: for a general P and the subkinds, roles or phases that specialize P,
\* _find_matching_genset returns a genset of general P with exactly those
\* specifics when the table holds one, wherever it is declared; otherwise
\* one of general P that shares a specific with them, and None when there is
\* none.
ExactGensetIsPreferred ==
    phase = "analyzed" =>
        \A P \in DeclaredNames \cup {g.general : g \in DeclaredGensets} :
            \A stereotype \in {"subkind", "role", "phase"} :
                LET specifics == ChildrenOf(P, stereotype)
                    found == _find_matching_genset(Table, P, specifics)
                IN specifics # <<>> =>
                      IF ExactGensets(P, specifics) # {}
                      THEN found \in ExactGensets(P, specifics)
                      ELSE IF OverlappingGensets(P, specifics) # {}
                      THEN found \in OverlappingGensets(P, specifics)
                      ELSE found = None

\* The declared classes of a stereotype that have no specializes clause
WithoutSpecializes(stereotype) ==
    {d \in ToSet(ast.content) : /\ d.node_type = "class_definition"
                                /\ d.class_stereotype = stereotype
                                /\ d.specialization = None}

\* The pattern lists a name among the specifics of its elements
ListsSpecific(p, name) ==
    \/ "specifics" \in DOMAIN p.elements /\ Contains(p.elements.specifics, name)
    \/ "role_specifics" \in DOMAIN p.elements /\ Contains(p.elements.role_specifics, name)

\* C27: analyze ends without an exception, and every role (phase) declared
\* without specializes has an error ROLE_WITHOUT_SPECIALIZATION
\* (PHASE_WITHOUT_SPECIALIZATION) in errors that names it and is among the
\* specifics of no pattern.
UnspecializedRoleIsReported ==
    phase = "analyzed" =>
        \A stereotype \in {"role", "phase"} :
            \A d \in WithoutSpecializes(stereotype) :
                /\ ~raised
                /\ Diagnosed(semantic.errors,
                             IF stereotype = "role" THEN "ROLE_WITHOUT_SPECIALIZATION"
                                                    ELSE "PHASE_WITHOUT_SPECIALIZATION",
                             "error", d.class_name)
                /\ \A i \in 1..Len(AllPatterns) : ~ListsSpecific(AllPatterns[i], d.class_name)

\* C28: every pattern of patterns has the status "complete" and every
\* pattern of incomplete_patterns has the status "incomplete", whatever its
\* type.
StatusAgreesWithBucket ==
    /\ \A i \in 1..Len(semantic.patterns) : semantic.patterns[i].status = "complete"
    /\ \A i \in 1..Len(semantic.incomplete_patterns) :
          semantic.incomplete_patterns[i].status = "incomplete"

\* The top-level warnings copied from the violations of relator patterns
RelatorWarnings ==
    SelectSeq(semantic.warnings, LAMBDA w : Get(w, "pattern_type") = "Relator_Pattern")

\* C29: the top-level warning copied from a MISSING_MATERIAL_RELATION
\* violation of a Relator_Pattern carries the suggestion made for it, the
\* @material snippet, and the one copied from a MEDIATION_TARGET_NOT_FOUND
\* violation, for which no suggestion is made, carries none.
SuggestionIsOfItsViolation ==
    \A i \in 1..Len(RelatorWarnings) :
        /\ RelatorWarnings[i].code = "MISSING_MATERIAL_RELATION"
              => /\ "suggestion" \in DOMAIN RelatorWarnings[i]
                 /\ Mentions(RelatorWarnings[i].suggestion.code_suggestion, "@material")
        /\ RelatorWarnings[i].code = "MEDIATION_TARGET_NOT_FOUND"
              => "suggestion" \notin DOMAIN RelatorWarnings[i]

====
